---------------------------- MODULE Spec2Model ----------------------------
(***************************************************************************)
(* State-machine model of the domain-scoped incremental web crawler,       *)
(* src/infinitheism/utils/crawl.py (class WebCrawler).                     *)
(*                                                                         *)
(* URLs and page contents are character strings.  The pure helpers         *)
(* (urlparse, urljoin, url2path, extract_links) are computed character by  *)
(* character, the way the Python code and its standard library do.  The    *)
(* crawl itself is a state machine over the files of the output directory  *)
(* (visited.json, queue.json, the artifacts) and the fields and locals of  *)
(* one WebCrawler process; the process can be killed between any two       *)
(* steps and crawl can be started again on the files it left.              *)
(***************************************************************************)
EXTENDS Integers, Sequences, FiniteSets, TLC

(***************************************************************************)
(* Strings                                                                 *)
(***************************************************************************)

Min(S) == CHOOSE m \in S : \A n \in S : m <= n

Max(S) == CHOOSE m \in S : \A n \in S : m >= n

\* The slice s[i-1:j] of Python: positions are 1-based and inclusive, clipped
\* to the string, and the slice is empty when nothing is left.
Sub(s, i, j) ==
    LET a == IF i < 1 THEN 1 ELSE i
        b == IF j > Len(s) THEN Len(s) ELSE j
    IN  IF b < a THEN "" ELSE SubSeq(s, a, b)

\* The character at position i, empty outside the string.
Ch(s, i) == Sub(s, i, i)

\* s[i:] with a 1-based position.
From(s, i) == Sub(s, i, Len(s))

\* Python's `pat in s`.
In(pat, s) ==
    \E i \in 1..(Len(s) - Len(pat) + 1) : Sub(s, i, i + Len(pat) - 1) = pat

\* Python's s.find(pat, start), 1-based; 0 when pat does not occur.
Find(s, pat, start) ==
    LET hits == {i \in start..(Len(s) - Len(pat) + 1) :
                    Sub(s, i, i + Len(pat) - 1) = pat}
    IN  IF hits = {} THEN 0 ELSE Min(hits)

\* The first position >= start of a character of the set cs; 0 when none.
FindAny(s, cs, start) ==
    LET hits == {i \in start..Len(s) : Ch(s, i) \in cs}
    IN  IF hits = {} THEN 0 ELSE Min(hits)

\* Python's s.split(sep) for a one-character sep, as a sequence of strings.
RECURSIVE Split(_, _)
Split(s, sep) ==
    LET i == Find(s, sep, 1)
    IN  IF i = 0 THEN <<s>>
        ELSE <<Sub(s, 1, i - 1)>> \o Split(From(s, i + 1), sep)

\* Python's sep.join(parts).
RECURSIVE Join(_, _)
Join(parts, sep) ==
    IF parts = <<>> THEN ""
    ELSE IF Len(parts) = 1 THEN parts[1]
    ELSE parts[1] \o sep \o Join(Tail(parts), sep)

\* Python's s.replace(old, new) for a one-character old.
RECURSIVE Replace(_, _, _)
Replace(s, old, new) ==
    IF s = "" THEN ""
    ELSE (IF Ch(s, 1) = old THEN new ELSE Ch(s, 1))
            \o Replace(From(s, 2), old, new)

\* Python's s.strip(chars): chars is a set of characters, stripped from both ends.
Strip(s, cs) ==
    LET keep == {i \in 1..Len(s) : Ch(s, i) \notin cs}
    IN  IF keep = {} THEN "" ELSE Sub(s, Min(keep), Max(keep))

Letters ==
    {"a", "b", "c", "d", "e", "f", "g", "h", "i", "j", "k", "l", "m",
     "n", "o", "p", "q", "r", "s", "t", "u", "v", "w", "x", "y", "z"}

Digits == {"0", "1", "2", "3", "4", "5", "6", "7", "8", "9"}

\* The characters of a string, as a set.
Chars(s) == {Ch(s, i) : i \in 1..Len(s)}

\* The characters U+0001 .. U+00FF, each at the position of its code point: the
\* alphabet of the strings of the model.  U+0000 and the characters above U+00FF
\* are not written in any string here.  (A grave accent is written with the
\* apostrophe that has to follow it in a string.)
Latin1 ==
    "\t\n\f\r"
    \o ""
    \o " !\"#$%&'()*+,-./"
    \o "0123456789:;<=>?"
    \o "@ABCDEFGHIJKLMNO"
    \o "PQRSTUVWXYZ[\\]^_"
    \o SubSeq("`'", 1, 1) \o "abcdefghijklmno"
    \o "pqrstuvwxyz{|}~"
    \o ""
    \o ""
    \o " ¡¢£¤¥¦§¨©ª«¬­®¯"
    \o "°±²³´µ¶·¸¹º»¼½¾¿"
    \o "ÀÁÂÃÄÅÆÇÈÉÊËÌÍÎÏ"
    \o "ÐÑÒÓÔÕÖ×ØÙÚÛÜÝÞß"
    \o "àáâãäåæçèéêëìíîï"
    \o "ðñòóôõö÷øùúûüýþÿ"

\* ord(c) and chr(n) on this alphabet.
ord(c) == Find(Latin1, c, 1)

chr(n) == Ch(Latin1, n)

\* The regex class \s on str: the characters with str.isspace() (the ones of the
\* alphabet: \t \n \v \f \r, U+001C .. U+001F, the space, U+0085, U+00A0).
Whitespace == {chr(n) : n \in (9..13) \cup (28..32) \cup {133, 160}}

\* The characters `.` does not match.
Newline == {"\n"}

\* string.ascii_letters, string.hexdigits and the printable ASCII characters.
AsciiLetters == Letters \cup Chars("ABCDEFGHIJKLMNOPQRSTUVWXYZ")

HexDigits == Chars("0123456789abcdefABCDEF")

PrintableAscii == {chr(n) : n \in 32..126}

\* '%x' % n
RECURSIVE hex(_)
hex(n) ==
    IF n < 16 THEN Ch("0123456789abcdef", n + 1)
    ELSE hex(n \div 16) \o Ch("0123456789abcdef", (n % 16) + 1)

\* int(s, 16) and int(s, 10) of a string of digits, after the value acc of the
\* digits read so far.
RECURSIVE int16(_, _)
int16(s, acc) ==
    IF s = "" THEN acc
    ELSE int16(From(s, 2),
               16 * acc + ((Find("0123456789abcdef0123456789ABCDEF", Ch(s, 1), 1) - 1) % 16))

RECURSIVE int10(_, _)
int10(s, acc) ==
    IF s = "" THEN acc
    ELSE int10(From(s, 2), 10 * acc + (Find("0123456789", Ch(s, 1), 1) - 1))

\* s.lstrip(chars) for a set of characters.
RECURSIVE lstrip(_, _)
lstrip(s, cs) == IF s # "" /\ Ch(s, 1) \in cs THEN lstrip(From(s, 2), cs) ELSE s

\* s.replace(c, "") for every character c of the set cs: the first one is at
\* position i (0: none).
RECURSIVE removed(_, _)
removed_at(s, cs, i) ==
    IF i = 0 THEN s ELSE Sub(s, 1, i - 1) \o removed(From(s, i + 1), cs)

removed(s, cs) == removed_at(s, cs, FindAny(s, cs, 1))

\* s.rfind(pat) for a one-character pat, 1-based; 0 when pat does not occur.
rfind(s, pat) == Max({0} \cup {i \in 1..Len(s) : Ch(s, i) = pat})

\* s.partition(sep)[0] for a one-character sep found at position i (0: not
\* found).
before_at(s, i) == IF i = 0 THEN s ELSE Sub(s, 1, i - 1)

\* str.lower() on the alphabet: the upper-case letters and their lower-case ones.
UpperCase == "ABCDEFGHIJKLMNOPQRSTUVWXYZÀÁÂÃÄÅÆÇÈÉÊËÌÍÎÏÐÑÒÓÔÕÖØÙÚÛÜÝÞ"

LowerCase == "abcdefghijklmnopqrstuvwxyzàáâãäåæçèéêëìíîïðñòóôõöøùúûüýþ"

lower_char(c, i) == IF i = 0 THEN c ELSE Ch(LowerCase, i)

RECURSIVE lower_each(_)
lower_each(s) ==
    IF s = "" THEN ""
    ELSE lower_char(Ch(s, 1), Find(UpperCase, Ch(s, 1), 1)) \o lower_each(From(s, 2))

UpperChars == Chars(UpperCase)

lower(s) == IF FindAny(s, UpperChars, 1) = 0 THEN s ELSE lower_each(s)


(***************************************************************************)
(* urllib.parse and ipaddress of Python 3.11, as far as the crawler uses   *)
(* them, on str arguments over the alphabet Latin1                         *)
(***************************************************************************)

\* urllib.parse.scheme_chars, uses_relative, uses_netloc and uses_params.
SchemeChars == AsciiLetters \cup Digits \cup {"+", "-", "."}

UsesRelative ==
    {"", "ftp", "http", "gopher", "nntp", "imap", "wais", "file", "https",
     "shttp", "mms", "prospero", "rtsp", "rtsps", "rtspu", "sftp", "svn",
     "svn+ssh", "ws", "wss"}

UsesNetloc ==
    {"", "ftp", "http", "gopher", "nntp", "telnet", "imap", "wais", "file",
     "mms", "https", "shttp", "snews", "prospero", "rtsp", "rtsps", "rtspu",
     "rsync", "svn", "svn+ssh", "sftp", "nfs", "git", "git+ssh", "ws", "wss"}

UsesParams ==
    {"", "ftp", "hdl", "prospero", "http", "imap", "https", "shttp", "rtsp",
     "rtsps", "rtspu", "sip", "sips", "mms", "sftp", "tel"}

\* _WHATWG_C0_CONTROL_OR_SPACE and _UNSAFE_URL_BYTES_TO_REMOVE.
C0ControlOrSpace == {chr(n) : n \in 1..32}

UnsafeUrlBytes == {"\t", "\r", "\n"}

\* urlsplit: the rest r3 is cut at the first `?`, at position q (0: none).
split_query_at(scheme, netloc, r3, fragment, q) ==
    [scheme   |-> scheme,
     netloc   |-> netloc,
     path     |-> IF q = 0 THEN r3 ELSE Sub(r3, 1, q - 1),
     query    |-> IF q = 0 THEN "" ELSE From(r3, q + 1),
     fragment |-> fragment]

split_query(scheme, netloc, r3, fragment) ==
    split_query_at(scheme, netloc, r3, fragment, Find(r3, "?", 1))

\* urlsplit: the rest r2 is cut at the first `#`, at position h (0: none).
split_fragment_at(scheme, netloc, r2, h) ==
    IF h = 0 THEN split_query(scheme, netloc, r2, "")
    ELSE split_query(scheme, netloc, Sub(r2, 1, h - 1), From(r2, h + 1))

split_fragment(scheme, netloc, r2) ==
    split_fragment_at(scheme, netloc, r2, Find(r2, "#", 1))

\* urlsplit: _splitnetloc(url, 2), the netloc ends at position d - 1 (d = 0:
\* at the end of the string).
split_netloc_at(scheme, r1, d) ==
    IF d = 0 THEN split_fragment(scheme, From(r1, 3), "")
    ELSE split_fragment(scheme, Sub(r1, 3, d - 1), From(r1, d))

\* urlsplit: the rest r1 after the scheme has a netloc when it starts with `//`.
split_netloc(scheme, r1) ==
    IF Sub(r1, 1, 2) = "//"
    THEN split_netloc_at(scheme, r1, FindAny(r1, {"/", "?", "#"}, 3))
    ELSE split_fragment(scheme, "", r1)

\* urlsplit: the text before the first `:`, at position i, is a scheme.
has_scheme(url, i) ==
    /\ i > 1
    /\ Ch(url, 1) \in AsciiLetters
    /\ \A k \in 1..(i - 1) : Ch(url, k) \in SchemeChars

split_scheme(url, default, i) ==
    IF has_scheme(url, i)
    THEN split_netloc(lower(Sub(url, 1, i - 1)), From(url, i + 1))
    ELSE split_netloc(default, url)

\* urlsplit after url and scheme were stripped of the characters it removes.
urlsplit_stripped(url, default) == split_scheme(url, default, Find(url, ":", 1))

\* urlsplit(url, scheme=default): the five components.
urlsplit(url, default) ==
    urlsplit_stripped(removed(lstrip(url, C0ControlOrSpace), UnsafeUrlBytes),
                      removed(Strip(default, C0ControlOrSpace), UnsafeUrlBytes))

\* ipaddress.IPv4Address._parse_octet returns (does not raise).
parse_octet(octet_str) ==
    /\ octet_str # ""
    /\ \A k \in 1..Len(octet_str) : Ch(octet_str, k) \in Digits
    /\ Len(octet_str) <= 3
    /\ octet_str = "0" \/ Ch(octet_str, 1) # "0"
    /\ int10(octet_str, 0) <= 255

\* ipaddress.IPv4Address(address) is constructed (does not raise).
IPv4Address(address) ==
    /\ ~In("/", address)
    /\ address # ""
    /\ Len(Split(address, ".")) = 4
    /\ \A k \in 1..4 : parse_octet(Split(address, ".")[k])

\* The two hextets IPv6Address puts in the place of an IPv4-style suffix.
ipv4_hextets(octets) ==
    <<hex(256 * int10(octets[1], 0) + int10(octets[2], 0)),
      hex(256 * int10(octets[3], 0) + int10(octets[4], 0))>>

\* ipaddress.IPv6Address._parse_hextet returns, int('', 16) of an empty part
\* included.
parse_hextet(hextet_str) ==
    /\ \A k \in 1..Len(hextet_str) : Ch(hextet_str, k) \in HexDigits
    /\ Len(hextet_str) <= 4
    /\ hextet_str # ""

\* _ip_int_from_string for the parts between the colons, an IPv4-style suffix
\* already converted: at most one empty part that is not the first or the last
\* one (a `::`), the numbers of parts above and below it, the hextets parsed.
ip_int_from_parts(parts) ==
    LET n     == Len(parts)
        skips == {k \in 2..(n - 1) : parts[k] = ""}
    IN  /\ n <= 9
        /\ Cardinality(skips) <= 1
        /\ IF skips # {}
           THEN LET skip_index == Min(skips)
                    parts_hi == IF parts[1] = "" THEN skip_index - 2 ELSE skip_index - 1
                    parts_lo == IF parts[n] = "" THEN n - skip_index - 1 ELSE n - skip_index
                IN  /\ parts[1] = "" => parts_hi = 0
                    /\ parts[n] = "" => parts_lo = 0
                    /\ 8 - (parts_hi + parts_lo) >= 1
                    /\ \A k \in 1..parts_hi : parse_hextet(parts[k])
                    /\ \A k \in (n - parts_lo + 1)..n : parse_hextet(parts[k])
           ELSE n = 8 /\ \A k \in 1..8 : parse_hextet(parts[k])

\* ipaddress.IPv6Address._ip_int_from_string returns, for ip_str.split(':').
ip_int_from_split(ip_str, parts) ==
    /\ ip_str # ""
    /\ Len(parts) >= 3
    /\ IF In(".", parts[Len(parts)])
       THEN /\ IPv4Address(parts[Len(parts)])
            /\ ip_int_from_parts(SubSeq(parts, 1, Len(parts) - 1)
                                    \o ipv4_hextets(Split(parts[Len(parts)], ".")))
       ELSE ip_int_from_parts(parts)

ip_int_from_string(ip_str) == ip_int_from_split(ip_str, Split(ip_str, ":"))

\* ipaddress.IPv6Address(address) is constructed: _split_scope_id at the first
\* `%`, then _ip_int_from_string.
IPv6Address(address) ==
    LET percent == Find(address, "%", 1)
    IN  /\ ~In("/", address)
        /\ percent # 0
            => From(address, percent + 1) # "" /\ ~In("%", From(address, percent + 1))
        /\ ip_int_from_string(before_at(address, percent))

\* re.match(r"\Av[a-fA-F0-9]+\..+\Z", hostname)
ipvfuture(hostname) ==
    \E k \in 3..(Len(hostname) - 1) :
        /\ Ch(hostname, 1) = "v"
        /\ \A j \in 2..(k - 1) : Ch(hostname, j) \in HexDigits
        /\ Ch(hostname, k) = "."
        /\ \A j \in (k + 1)..Len(hostname) : Ch(hostname, j) \notin Newline

\* _check_bracketed_host(hostname) raises ValueError: an IPvFuture literal that
\* is invalid, an IPv4 address, or what ipaddress.ip_address does not accept.
check_bracketed_host_raises(hostname) ==
    IF Ch(hostname, 1) = "v" THEN ~ipvfuture(hostname)
    ELSE IPv4Address(hostname) \/ ~IPv6Address(hostname)

\* netloc.partition('[')[2].partition(']')[0] with the first `[` at position
\* bracket.
bracketed_host_at(netloc, bracket) ==
    before_at(From(netloc, bracket + 1), Find(From(netloc, bracket + 1), "]", 1))

bracketed_host(netloc) == bracketed_host_at(netloc, Find(netloc, "[", 1))

\* urlsplit raises ValueError("Invalid IPv6 URL") on an unbalanced bracket in the
\* netloc.
unbalanced(netloc) == In("[", netloc) # In("]", netloc)

\* urlsplit raises ValueError for this netloc.  (_checknetloc raises on no
\* netloc over the alphabet: NFKC normalization gives none of its characters a
\* `/`, `?`, `#`, `@` or `:`.)
netloc_raises(netloc) ==
    \/ unbalanced(netloc)
    \/ /\ In("[", netloc)
       /\ In("]", netloc)
       /\ check_bracketed_host_raises(bracketed_host(netloc))

urlsplit_raises(url) == netloc_raises(urlsplit(url, "").netloc)

\* _splitparams(url) with the `;` it cuts at, at position i (0: none).
splitparams_at(url, i) ==
    [path   |-> IF i = 0 THEN url ELSE Sub(url, 1, i - 1),
     params |-> IF i = 0 THEN "" ELSE From(url, i + 1)]

splitparams(url) ==
    IF In("/", url) THEN splitparams_at(url, Find(url, ";", rfind(url, "/")))
    ELSE splitparams_at(url, Find(url, ";", 1))

\* urlparse: the six components, for the five of urlsplit.
ParseResult(s, p) ==
    [scheme   |-> s.scheme,
     netloc   |-> s.netloc,
     path     |-> p.path,
     params   |-> p.params,
     query    |-> s.query,
     fragment |-> s.fragment]

parse_of_split(s) ==
    IF s.scheme \in UsesParams /\ In(";", s.path)
    THEN ParseResult(s, splitparams(s.path))
    ELSE ParseResult(s, splitparams_at(s.path, 0))

\* urlparse(url, scheme=default)
urlparse_default(url, default) == parse_of_split(urlsplit(url, default))

urlparse(url) == urlparse_default(url, "")

\* netloc.rpartition('@')[2]: what follows the last `@`.
hostinfo(netloc) == From(netloc, rfind(netloc, "@") + 1)

\* _hostinfo[0]: the text between `[` and `]`, else the text before the first `:`.
host_of_hostinfo(info, bracket) ==
    IF bracket # 0 THEN bracketed_host_at(info, bracket)
    ELSE before_at(info, Find(info, ":", 1))

\* hostname.lower() + percent + zone: a zone after `%` keeps its case.
host_lower(host, percent) ==
    IF percent = 0 THEN lower(host)
    ELSE lower(Sub(host, 1, percent - 1)) \o From(host, percent)

host_of(info) == host_of_hostinfo(info, Find(info, "[", 1))

\* urlparse(url).hostname: the host of the URL, without the user information and
\* the port that netloc carries ("" where Python gives None).
hostname(url) ==
    host_lower(host_of(hostinfo(urlparse(url).netloc)),
               Find(host_of(hostinfo(urlparse(url).netloc)), "%", 1))

\* urlunsplit: the netloc and the path (`url = '//' + (netloc or '') + url`).
netloc_path(scheme, netloc, path) ==
    IF netloc # "" \/ (scheme # "" /\ scheme \in UsesNetloc /\ Sub(path, 1, 2) # "//")
    THEN "//" \o netloc
           \o (IF path # "" /\ Ch(path, 1) # "/" THEN "/" ELSE "")
           \o path
    ELSE path

\* urlunsplit: a non-empty part is put before (scheme) or after (query,
\* fragment) the rest with its separator.
prefixed(part, sep, rest) == IF part # "" THEN part \o sep \o rest ELSE rest

suffixed(rest, sep, part) == IF part # "" THEN rest \o sep \o part ELSE rest

\* urlunsplit of the five components.
urlunsplit(scheme, netloc, path, query, fragment) ==
    suffixed(suffixed(prefixed(scheme, ":", netloc_path(scheme, netloc, path)),
                      "?", query),
             "#", fragment)

\* urlunparse of the six components.
urlunparse(scheme, netloc, path, params, query, fragment) ==
    urlunsplit(scheme, netloc, suffixed(path, ";", params), query, fragment)

\* The inner segments of a merged relative path, empty ones dropped
\* (segments[1:-1] = filter(None, segments[1:-1])).
DropEmptyInner(segs) ==
    IF Len(segs) <= 2 THEN segs
    ELSE <<segs[1]>>
            \o SelectSeq(SubSeq(segs, 2, Len(segs) - 1), LAMBDA x : x # "")
            \o <<segs[Len(segs)]>>

\* The dot-segment loop of urljoin.
RECURSIVE ResolveDots(_, _)
ResolveDots(segs, acc) ==
    IF segs = <<>> THEN acc
    ELSE IF segs[1] = ".."
         THEN ResolveDots(Tail(segs),
                          IF acc = <<>> THEN acc ELSE SubSeq(acc, 1, Len(acc) - 1))
    ELSE IF segs[1] = "." THEN ResolveDots(Tail(segs), acc)
    ELSE ResolveDots(Tail(segs), Append(acc, segs[1]))

\* urljoin: base_parts, the segments of the base path without its last one
\* when that one is not empty.
base_parts(bp) ==
    IF bp[Len(bp)] # "" THEN SubSeq(bp, 1, Len(bp) - 1) ELSE bp

\* urljoin: the segments of the merged path, before the dots are resolved.
segments(bpath, upath) ==
    IF Sub(upath, 1, 1) = "/" THEN Split(upath, "/")
    ELSE DropEmptyInner(base_parts(Split(bpath, "/")) \o Split(upath, "/"))

\* urljoin: resolved_path, with the empty last segment a trailing dot leaves.
resolved_path(segs) ==
    IF segs[Len(segs)] \in {".", ".."}
    THEN Append(ResolveDots(segs, <<>>), "")
    ELSE ResolveDots(segs, <<>>)

\* urljoin: '/'.join(resolved_path) or '/'.
joined_path(joined) == IF joined = "" THEN "/" ELSE joined

\* urljoin: `if scheme in uses_netloc: ... netloc = bnetloc`.
joined_netloc(b, u) == IF u.scheme \in UsesNetloc THEN b.netloc ELSE u.netloc

\* urljoin for the parsed base b and the parsed url u.
urljoin_split(base, url, b, u) ==
    IF u.scheme # b.scheme \/ u.scheme \notin UsesRelative THEN url
    ELSE IF u.scheme \in UsesNetloc /\ u.netloc # ""
         THEN urlunparse(u.scheme, u.netloc, u.path, u.params, u.query, u.fragment)
    ELSE IF u.path = "" /\ u.params = ""
         THEN urlunparse(u.scheme, joined_netloc(b, u), b.path, b.params,
                         IF u.query = "" THEN b.query ELSE u.query, u.fragment)
    ELSE urlunparse(u.scheme, joined_netloc(b, u),
                    joined_path(Join(resolved_path(segments(b.path, u.path)), "/")),
                    u.params, u.query, u.fragment)

\* urljoin for the parsed base b: url is parsed with the scheme of the base.
urljoin_base(base, url, b) ==
    urljoin_split(base, url, b, urlparse_default(url, b.scheme))

\* urljoin(base, url) for arguments that parse.
urljoin(base, url) ==
    IF base = "" THEN url
    ELSE IF url = "" THEN base
    ELSE urljoin_base(base, url, urlparse(base))

\* urljoin raises when urlparse of either argument does.
urljoin_raises(base, url) ==
    url # "" /\ base # "" /\ (urlsplit_raises(base) \/ urlsplit_raises(url))

(***************************************************************************)
(* Configuration of the crawler under test (WebCrawler.__init__)           *)
(***************************************************************************)

\* self.domain
domain == "d.c"

\* self.exclude_patterns
exclude_patterns == <<".pdf", "cart">>

\* any(ext in url for ext in self.exclude_patterns)
Excluded(url) ==
    \E k \in 1..Len(exclude_patterns) : In(exclude_patterns[k], url)

\* self.domain in urlparse(url).netloc
OnDomain(url) == In(domain, urlparse(url).netloc)

\* The host of url contains the configured domain string.
HostOnDomain(url) == In(domain, hostname(url))

(***************************************************************************)
(* Path Utilities                                                          *)
(***************************************************************************)

\* The artifact's file name under content_dir.
url2path_of(parsed) ==
    Strip(Replace(parsed.netloc \o parsed.path, "/", "__"), {"_"}) \o ".md"

url2path(url) == url2path_of(urlparse(url))

\* url2path(url) raises what urlparse(url).netloc raises.
url2path_raises(url) == urlsplit_raises(url)

(***************************************************************************)
(* Link Extraction                                                         *)
(***************************************************************************)

\* re.search of \[.*?\]\((.*?)\) anchored at position i: the group and the
\* position of the closing parenthesis, or end = 0 when there is no match at i.
MarkdownLinkAt(md, i) ==
    LET sameLine(a, b) == \A k \in a..b : Ch(md, k) \notin Newline
        closes(j) == {k \in (j + 2)..Len(md) :
                        Ch(md, k) = ")" /\ sameLine(j + 2, k - 1)}
        opens == {j \in (i + 1)..(Len(md) - 1) :
                    /\ Sub(md, j, j + 1) = "]("
                    /\ sameLine(i + 1, j - 1)
                    /\ closes(j) # {}}
    IN  IF Ch(md, i) # "[" \/ opens = {} THEN [group |-> "", end |-> 0]
        ELSE LET j == Min(opens)
                 k == Min(closes(j))
             IN  [group |-> Sub(md, j + 2, k - 1), end |-> k]

\* re.findall(r'\[.*?\]\((.*?)\)', md) from position i on.
RECURSIVE MarkdownLinks(_, _)
MarkdownLinks(md, i) ==
    IF i > Len(md) THEN <<>>
    ELSE LET m == MarkdownLinkAt(md, i)
         IN  IF m.end = 0 THEN MarkdownLinks(md, i + 1)
             ELSE <<m.group>> \o MarkdownLinks(md, m.end + 1)

\* re.findall(r'https://[^\s\)\]]+', md) from position i on.
RECURSIVE PlainLinks(_, _)
PlainLinks(md, i) ==
    LET stop == Whitespace \cup {")", "]"}
        at   == Find(md, "https://", i)
        e    == FindAny(md, stop, at + 8)
        last == IF e = 0 THEN Len(md) ELSE e - 1
    IN  IF at = 0 THEN <<>>
        ELSE IF last < at + 8 THEN PlainLinks(md, at + 1)
        ELSE <<Sub(md, at, last)>> \o PlainLinks(md, last + 1)

\* The href as it is, fragment included.
StripFragment_keeps(href) == href

\* href.split('#')[0]
StripFragment(href) ==
    LET h == Find(href, "#", 1)
    IN  IF h = 0 THEN href ELSE Sub(href, 1, h - 1)

\* href = urljoin(base_url, match), for each match.
hrefs(matches, base_url) ==
    [k \in 1..Len(matches) |-> urljoin(base_url, matches[k])]

\* urljoin or urlparse raises on one of the matches.
links_raise(matches, joined, base_url) ==
    \E k \in 1..Len(matches) :
        \/ urljoin_raises(base_url, matches[k])
        \/ urlsplit_raises(joined[k])

\* The two for loops without their domain test.
LinksOf_unfiltered(joined) ==
    {StripFragment(joined[k]) : k \in 1..Len(joined)}

\* The two for loops of extract_links over the joined matches.
LinksOf(joined) ==
    {StripFragment(joined[k]) : k \in {n \in 1..Len(joined) : OnDomain(joined[n])}}

\* extract_links for the matches of the two regular expressions.
links_of_matches(matches, joined, base_url) ==
    IF links_raise(matches, joined, base_url)
    THEN [raised |-> TRUE, links |-> {}]
    ELSE [raised |-> FALSE, links |-> LinksOf(joined)]

links_of(matches, base_url) ==
    links_of_matches(matches, hrefs(matches, base_url), base_url)

\* extract_links(markdown, base_url): the set of links, or raised when
\* urljoin or urlparse raises on one of the matches.
extract_links(markdown, base_url) ==
    links_of(MarkdownLinks(markdown, 1) \o PlainLinks(markdown, 1), base_url)

(***************************************************************************)
(* The environment: the site the page-fetch engine renders, the arguments  *)
(* the crawler is started with, and the bounds of the model                *)
(***************************************************************************)

\* result.markdown of crawler.arun(url=...) for each page of the site.
Web ==
    [u \in {"https://d.c", "https://d.c/", "https://d.c/a", "https://d.c/b",
            "https://d.c/c", "https://d.c/e"} |->
        CASE u = "https://d.c" ->
                "[a](/a) [b](b#t) https://o.x/p [c](https://d.c/cart)"
          [] u = "https://d.c/" -> "home [a](/a) [b](b#t)"
          [] u = "https://d.c/a" -> "[s](https://d.c/) [c](/c) [a](#top)"
          [] u = "https://d.c/b" -> "see https://d.c/c#x and https://d.c/a"
          [] u = "https://d.c/c" -> "[e](e) [f](/f.pdf) [i](https://d.c@o.x/p)"
          [] u = "https://d.c/e" -> "[bad](//[v6) [s](/)"]

\* The markdown the engine returns for url on success (an unknown page is empty).
Markdown(url) == IF url \in DOMAIN Web THEN Web[url] ELSE ""

\* What extract_links returns for the pages of Web, computed once.
PageExtract == [u \in DOMAIN Web |-> extract_links(Web[u], u)]

\* Line 107: extract_links(result.markdown, url) for the page the engine
\* returns for url.
extract_page(u) ==
    IF u \in DOMAIN Web THEN PageExtract[u] ELSE extract_links(Markdown(u), u)

\* The seed_url arguments crawl is called with.
Seeds == {"https://d.c", "https://d.c/c", "https://d.c/cart", "https://o.x/p"}

\* The website arguments the entry points are called with: the seeds on the
\* domain under test, a URL without a scheme and a URL without a host.
Websites ==
    {"d.c/a", "https:///c"} \cup {seed \in Seeds : urlparse(seed).netloc = domain}

\* `if not domain` (line 177, line 214): urlparse(website).netloc is empty.
NoHost == {website \in Websites : urlparse(website).netloc = ""}

\* The websites whose host is the domain the model's crawler is configured with
\* (domain = parsed_url.netloc, line 175).
OnHost == {website \in Websites : urlparse(website).netloc = domain}

\* A queue.json found in the output directory that this configuration did not
\* write: an excluded URL, a URL of another host, a page of the site.
OldQueue == <<"https://d.c/cart", "https://o.x/p", "https://d.c/b">>

\* Another one: its second URL has a bracketed host that is no IP address, so
\* urlparse(url).netloc raises ValueError.
UnparsedQueue == <<"https://d.c/a", "https://[v6]/x", "https://d.c/b">>

\* crawl_limit: a small ceiling and the default one.
SmallLimit == 1

DefaultLimit == 50000

Limits == {SmallLimit, DefaultLimit}

\* How many times crawl is called in one behaviour.
MaxRuns == 3

\* How many times the process is killed in one behaviour.
MaxKills == 1

\* How many fetches fail (a failure result or an exception) in one behaviour.
MaxFailures == 1

(***************************************************************************)
(* State                                                                   *)
(***************************************************************************)

VARIABLES
    visited_file,   \* visited.json: [state, data], data the set of URLs in the array
    queue_file,     \* queue.json: [state, data], data the sequence of URLs
    artifacts,      \* the files under content_dir: file name -> content
    pc,             \* where the crawler process is
    crawl_limit,    \* self.crawl_limit
    visited,        \* self.visited
    crawled,        \* self.crawled
    counted,        \* history: the URLs this instance fetched, wrote and extracted
    seed_url,       \* the argument of the crawl call in progress
    to_crawl,       \* the local to_crawl of crawl
    idx,            \* the position of `for url in to_crawl`
    next_batch,     \* the local next_batch of crawl
    fetch_count,    \* history: url -> the number of crawler.arun calls issued for it
    run_fetched,    \* history: the URLs crawler.arun was called for by this crawl call
    last,           \* history: the latest crawl call (the one in progress, if any)
    rel,            \* history: how the latest crawl call relates to the one before
    runs,           \* history: the number of crawl calls
    kills,          \* history: the number of kills
    failures,       \* history: the number of fetches that failed
    failed,         \* history: the URLs whose fetch failed or raised
    dirs,           \* data_dir and content_dir exist
    call,           \* a helper applied on its own: the helper and its arguments
    result,         \* ... and what it returned
    json_file,      \* ... and the text of the file save_json and load_json work on
    crawlers,       \* two WebCrawler instances in one process: their fields and locals
    fs,             \* ... and the file system they share: path -> content
    alone           \* ... and each instance run alone on a file system of its own

vars ==
    <<visited_file, queue_file, artifacts, pc, crawl_limit, visited, crawled,
      counted, seed_url, to_crawl, idx, next_batch, fetch_count, run_fetched,
      last, rel, runs, kills, failures, failed, dirs, call, result, json_file,
      crawlers, fs, alone>>

\* The output directory: the directories and the files in them.
disk == <<dirs, visited_file, queue_file, artifacts>>

\* The two instances of one process and their file systems.
pair == <<crawlers, fs, alone>>

\* The variables of a helper applied on its own and of the two instances; the
\* crawler process leaves them alone.
aside == <<call, result, json_file, pair>>

Absent == [state |-> "absent", data |-> {}]

Corrupt == [state |-> "corrupt", data |-> {}]

File(data) == [state |-> "ok", data |-> data]

\* The states in which a crawl call is on the stack.
Running == {"loop", "arun", "fetching"}

\* ... or has been entered and waits in the `async with` of line 126.
Entered == Running \cup {"entering"}

\* The sequences without repetition of the elements of S: the orders list(S) can have.
Perms(S) ==
    {f \in [1..Cardinality(S) -> S] : \A i, j \in 1..Cardinality(S) : f[i] = f[j] => i = j}

Range(f) == {f[i] : i \in DOMAIN f}

(***************************************************************************)
(* Persistence Utilities                                                   *)
(***************************************************************************)

\* load_json raises when the file exists and does not hold a JSON document.
load_raises(file) == file.state = "corrupt"

\* Mutant of load_visited: crawl starts from an empty visited set.
load_visited_forgets == {}

\* load_visited(): set(load_json(visited_file, []))
load_visited == IF visited_file.state = "ok" THEN visited_file.data ELSE {}

\* Mutant of load_queue: queue.json is not read.
load_queue_nothing == <<>>

\* load_queue(): load_json(queue_file, [])
load_queue == IF queue_file.state = "ok" THEN queue_file.data ELSE <<>>

\* Mutant of save_visited: only the URL just added is written.
save_visited_delta(v) == File(v \ visited)

\* Mutant of save_visited: the file is written before the add, not after.
save_visited_stale(v) == File(visited)

\* Mutant of save_visited: visited.json is not written.
save_visited_skipped(v) == visited_file

\* save_visited(): the whole file is rewritten with list(v).
save_visited(v) == File(v)

\* Mutant of save_queue: an empty frontier is not written.
save_queue_unless_empty(queue) == IF queue = <<>> THEN queue_file ELSE File(queue)

\* Mutant of save_queue: the frontier just processed is written, not the next.
save_queue_previous(queue) == File(to_crawl)

\* save_queue(queue): the whole file is rewritten with queue.
save_queue(queue) == File(queue)

\* A crawl loop without the test of line 138.
artifact_exists_never(u) == FALSE

\* exists(self.url2path(url))
artifact_exists(u) == url2path(u) \in DOMAIN artifacts

\* Mutant of write_to_file: nothing is written.
write_to_file_nothing(u, markdown) == artifacts

\* write_to_file(url, markdown): the files after the write.
write_to_file(u, markdown) ==
    [f \in DOMAIN artifacts \cup {url2path(u)} |->
        IF f = url2path(u) THEN markdown ELSE artifacts[f]]

(***************************************************************************)
(* History kept for the properties                                         *)
(***************************************************************************)

\* No crawl call yet.
NoRun ==
    [seed |-> "", limit |-> 0, seeded |-> FALSE, round |-> 0, end |-> "none",
     inflight |-> "", first |-> FALSE, ok |-> {}, start |-> <<>>]

\* The record of a crawl call that starts: seeded when the frontier is
\* [seed_url], first when it starts on the empty output directory; ok holds
\* the URLs of the round whose fetch returned with result.success; start is
\* the frontier the call starts with.
NewRun(seed, seeded, end) ==
    [seed |-> seed, limit |-> crawl_limit, seeded |-> seeded, round |-> 1,
     end |-> end, inflight |-> "",
     first |-> runs = 0 /\ queue_file.state = "absent", ok |-> {}, start |-> <<>>]

NoRel == [kind |-> "none", seeded |-> FALSE, lost |-> "", first |-> FALSE, limit |-> 0]

\* A crawl call with the seed of the call before it either resumes it (the
\* process was killed between two writes) or repeats it (it had returned from
\* the while loop).
NewRel(seed) ==
    IF last.seed = seed /\ last.end = "killed"
    THEN [kind |-> "resume", seeded |-> FALSE, lost |-> last.inflight,
          first |-> last.first, limit |-> last.limit]
    ELSE IF last.seed = seed /\ last.end = "normal"
    THEN [kind |-> "repeat", seeded |-> last.seeded, lost |-> "",
          first |-> FALSE, limit |-> 0]
    ELSE NoRel

\* fetch_count after one more crawler.arun(url=u).
Counted(u) ==
    [v \in DOMAIN fetch_count \cup {u} |->
        IF v \in DOMAIN fetch_count
        THEN fetch_count[v] + (IF v = u THEN 1 ELSE 0)
        ELSE 1]

(***************************************************************************)
(* The crawler process                                                     *)
(***************************************************************************)

\* Mutant of url: depth first, the loop takes the link it collected last.
url_depth_first ==
    IF next_batch # <<>> THEN next_batch[Len(next_batch)] ELSE to_crawl[idx]

\* The URL the for loop of crawl is at.
url == to_crawl[idx]

\* A process that is gone keeps no memory.
NoProcess ==
    /\ pc' = "killed"
    /\ visited' = {}
    /\ crawled' = 0
    /\ counted' = {}
    /\ seed_url' = ""
    /\ to_crawl' = <<>>
    /\ idx' = 1
    /\ next_batch' = <<>>
    /\ kills' = kills + 1
    /\ UNCHANGED <<crawl_limit, fetch_count, run_fetched, rel, runs, failures,
                   failed, aside>>

\* No helper is applied on its own while the crawler runs.
NoCall == [fn |-> "none"]

NoResult == [state |-> "none"]

\* Before the first process: the output directory does not exist, or it holds
\* a queue.json that was not written under this domain and these exclusion
\* patterns (OldQueue, UnparsedQueue).
Init ==
    /\ \/ dirs = FALSE /\ queue_file = Absent
       \/ dirs = TRUE /\ queue_file \in {File(OldQueue), File(UnparsedQueue)}
    /\ visited_file = Absent
    /\ artifacts = <<>>
    /\ pc = "none"
    /\ crawl_limit = DefaultLimit
    /\ visited = {}
    /\ crawled = 0
    /\ counted = {}
    /\ seed_url = ""
    /\ to_crawl = <<>>
    /\ idx = 1
    /\ next_batch = <<>>
    /\ fetch_count = <<>>
    /\ run_fetched = {}
    /\ last = NoRun
    /\ rel = NoRel
    /\ runs = 0
    /\ kills = 0
    /\ failures = 0
    /\ failed = {}
    /\ call = NoCall
    /\ result = NoResult
    /\ json_file = ""
    /\ crawlers = <<>>
    /\ fs = <<>>
    /\ alone = <<>>

\* No crawler process is running.
Stopped == {"none", "done", "crashed", "killed", "exited", "raised"}

\* Mutant of NewCrawler: the counter is restored from visited.json.
NewCrawler_restores(limit) ==
    /\ crawl_limit' = limit
    /\ visited' = {}
    /\ crawled' = Cardinality(load_visited)
    /\ counted' = {}
    /\ to_crawl' = <<>>
    /\ idx' = 1
    /\ next_batch' = <<>>
    /\ dirs' = TRUE
    /\ UNCHANGED <<visited_file, queue_file, artifacts, fetch_count, run_fetched,
                   last, rel, runs, kills, failures, failed, aside>>

\* WebCrawler.__init__: the fields, and the two mkdir of line 42-43.
NewCrawler(limit) ==
    /\ crawl_limit' = limit
    /\ visited' = {}
    /\ crawled' = 0
    /\ counted' = {}
    /\ to_crawl' = <<>>
    /\ idx' = 1
    /\ next_batch' = <<>>
    /\ dirs' = TRUE
    /\ UNCHANGED <<visited_file, queue_file, artifacts, fetch_count,
                   run_fetched, last, rel, runs, kills, failures, failed,
                   aside>>

\* WebCrawler(domain, output_dir, crawl_limit=limit, ...) in a new process, on
\* the output directory as the last process left it.
Construct(limit) ==
    /\ pc \in Stopped
    /\ runs < MaxRuns
    /\ pc' = "ready"
    /\ seed_url' = ""
    /\ NewCrawler(limit)

\* An entry point that validates after constructing: the directories exist.
Rejected_after_construct(how) ==
    /\ pc' = how
    /\ visited' = {}
    /\ crawled' = 0
    /\ counted' = {}
    /\ seed_url' = ""
    /\ to_crawl' = <<>>
    /\ idx' = 1
    /\ next_batch' = <<>>
    /\ dirs' = TRUE
    /\ UNCHANGED <<visited_file, queue_file, artifacts, crawl_limit,
                   fetch_count, run_fetched, last, rel, runs, kills, failures,
                   failed, aside>>

\* An entry point whose website argument has no host returns before line 183
\* (line 217): no WebCrawler, no directory, no file.
Rejected(how) ==
    /\ pc' = how
    /\ visited' = {}
    /\ crawled' = 0
    /\ counted' = {}
    /\ seed_url' = ""
    /\ to_crawl' = <<>>
    /\ idx' = 1
    /\ next_batch' = <<>>
    /\ UNCHANGED <<disk, crawl_limit, fetch_count, run_fetched, last, rel, runs,
                   kills, failures, failed, aside>>

\* The CLI command crawl_website(website, output_dir, crawl_limit=limit) in a
\* new process: typer.Exit(1) when urlparse(website).netloc is empty, else the
\* crawler is constructed for that host and crawl(website) is about to run.
crawl_website(website, limit) ==
    /\ pc \in Stopped
    /\ IF website \in NoHost
       THEN Rejected("exited")
       ELSE /\ website \in OnHost
            /\ runs < MaxRuns
            /\ pc' = "ready"
            /\ seed_url' = website
            /\ NewCrawler(limit)

\* crawl_website_async(website, output_dir, crawl_limit=limit): ValueError when
\* urlparse(website).netloc is empty, else the same.
crawl_website_async(website, limit) ==
    /\ pc \in Stopped
    /\ IF website \in NoHost
       THEN Rejected("raised")
       ELSE /\ website \in OnHost
            /\ runs < MaxRuns
            /\ pc' = "ready"
            /\ seed_url' = website
            /\ NewCrawler(limit)

\* crawl(seed_url) is called: line 124, up to the awaits of line 126.  A
\* visited.json that does not parse makes json.load raise, outside the try of
\* line 128.
Crawl(seed) ==
    /\ pc \in {"ready", "done", "crashed"}
    /\ (pc = "ready" /\ seed_url # "") => seed = seed_url
    /\ runs < MaxRuns
    /\ runs' = runs + 1
    /\ seed_url' = seed
    /\ idx' = 1
    /\ next_batch' = <<>>
    /\ to_crawl' = <<>>
    /\ run_fetched' = {}
    /\ rel' = NewRel(seed)
    /\ IF load_raises(visited_file)
       THEN /\ pc' = "crashed"
            /\ last' = NewRun(seed, FALSE, "crashed")
            /\ UNCHANGED visited
       ELSE /\ pc' = "entering"
            /\ visited' = load_visited
            /\ last' = NewRun(seed, FALSE, "running")
    /\ UNCHANGED <<disk, crawl_limit, crawled, counted, fetch_count, kills,
                   failures, failed, aside>>

\* Line 126-127: the `async with` has been entered, and
\* to_crawl = self.load_queue() or [seed_url].  A queue.json that does not
\* parse makes json.load raise, outside the try of line 128.
LoadQueue ==
    /\ pc = "entering"
    /\ IF load_raises(queue_file)
       THEN /\ pc' = "crashed"
            /\ last' = [last EXCEPT !.end = "crashed"]
            /\ UNCHANGED to_crawl
       ELSE /\ pc' = "loop"
            /\ to_crawl' = IF load_queue # <<>> THEN load_queue ELSE <<seed_url>>
            /\ last' = [last EXCEPT !.seeded = load_queue = <<>>,
                                    !.start = to_crawl']
    /\ UNCHANGED <<disk, crawl_limit, visited, crawled, counted, seed_url, idx,
                   next_batch, fetch_count, run_fetched, rel, runs, kills,
                   failures, failed, aside>>

\* Line 138 raises for u: it is reached (line 132-137 do not `continue`) and
\* url2path(u) raises.
Raised(u) ==
    /\ u \notin visited
    /\ ~Excluded(u)
    /\ url2path_raises(u)

\* Mutant of Skipped: the visited set is not consulted.
Skipped_ignores_visited(u) ==
    \/ Excluded(u)
    \/ ~url2path_raises(u) /\ (artifact_exists(u) \/ ~OnDomain(u))

\* Mutant of Skipped: the exclusion patterns are not consulted.
Skipped_ignores_patterns(u) ==
    \/ u \in visited
    \/ ~url2path_raises(u) /\ (artifact_exists(u) \/ ~OnDomain(u))

\* Mutant of Skipped: the existence of the artifact is not consulted.
Skipped_ignores_artifact(u) ==
    \/ u \in visited
    \/ Excluded(u)
    \/ ~url2path_raises(u) /\ ~OnDomain(u)

\* Mutant of Skipped: the domain is not consulted.
Skipped_ignores_domain(u) ==
    \/ u \in visited
    \/ Excluded(u)
    \/ ~url2path_raises(u) /\ artifact_exists(u)

\* The checks of line 132-140 and of line 95-98, in their order: url is not to
\* be fetched and the loop goes on.
Skipped(u) ==
    \/ u \in visited
    \/ Excluded(u)
    \/ ~url2path_raises(u) /\ (artifact_exists(u) \/ ~OnDomain(u))

\* crawl_and_scrape returns links: next_batch.extend(new_links), next url.  The
\* links come in the order line 110 iterates the set in, which follows the
\* string hashes of the process: any order.
Return(links) ==
    /\ \E order \in Perms(links) : next_batch' = next_batch \o order
    /\ idx' = idx + 1
    /\ pc' = "loop"

\* One url of the round that is skipped: `continue`, or `return []` at line 96/98.
SkipUrl ==
    /\ pc = "loop"
    /\ idx <= Len(to_crawl)
    /\ Skipped(url)
    /\ Return({})
    /\ UNCHANGED <<disk, crawl_limit, visited, crawled, counted, seed_url,
                   to_crawl, fetch_count, run_fetched, last, rel, runs, kills,
                   failures, failed, aside>>

\* Line 138 raises and line 146-147 catch it: the for loop and the while loop
\* are left, nothing is saved, crawl returns.
CrawlExcepts ==
    /\ pc = "loop"
    /\ idx <= Len(to_crawl)
    /\ Raised(url)
    /\ pc' = "done"
    /\ to_crawl' = <<>>
    /\ idx' = 1
    /\ next_batch' = <<>>
    /\ last' = [last EXCEPT !.end = "exception"]
    /\ UNCHANGED <<disk, crawl_limit, visited, crawled, counted, seed_url,
                   fetch_count, run_fetched, rel, runs, kills, failures, failed,
                   aside>>

\* Line 99-100: self.visited.add(url); self.save_visited()
MarkVisited ==
    /\ pc = "loop"
    /\ idx <= Len(to_crawl)
    /\ ~Skipped(url)
    /\ ~Raised(url)
    /\ visited' = visited \cup {url}
    /\ visited_file' = save_visited(visited')
    /\ pc' = "arun"
    /\ UNCHANGED <<dirs, queue_file, artifacts, crawl_limit, crawled, counted,
                   seed_url, to_crawl, idx, next_batch, fetch_count,
                   run_fetched, last, rel, runs, kills, failures, failed,
                   aside>>

\* Line 102: crawler.arun(url=url) is called.
IssueFetch ==
    /\ pc = "arun"
    /\ fetch_count' = Counted(url)
    /\ run_fetched' = run_fetched \cup {url}
    /\ pc' = "fetching"
    /\ UNCHANGED <<disk, crawl_limit, visited, crawled, counted, seed_url,
                   to_crawl, idx, next_batch, last, rel, runs, kills, failures,
                   failed, aside>>

\* Mutant of filtered_links: the links are returned as extracted.
filtered_links_unfiltered(links) == links

\* Line 108-112: the links that match no exclusion pattern.
filtered_links(links) == {link \in links : ~Excluded(link)}

\* Mutant of FetchSucceeds: the page that is counted above the ceiling still
\* returns its links.
FetchSucceeds_above_ceiling ==
    /\ pc = "fetching"
    /\ artifacts' = write_to_file(url, Markdown(url))
    /\ LET r == extract_page(url)
       IN  IF r.raised
           THEN /\ Return({})
                /\ UNCHANGED <<crawled, counted>>
           ELSE /\ crawled' = crawled + 1
                /\ counted' = counted \cup {url}
                /\ Return(filtered_links(r.links))
    /\ last' = [last EXCEPT !.ok = @ \cup {url}]
    /\ UNCHANGED <<dirs, visited_file, queue_file, crawl_limit, visited,
                   seed_url, to_crawl, fetch_count, run_fetched, rel, runs,
                   kills, failures, failed, aside>>

\* Line 102-116 for a fetch that succeeds: the artifact is written, the links
\* are extracted and filtered, the page is counted.  An exception of
\* extract_links, and the one line 115 raises, end in line 117-119: return [].
FetchSucceeds ==
    /\ pc = "fetching"
    /\ artifacts' = write_to_file(url, Markdown(url))
    /\ LET r == extract_page(url)
       IN  IF r.raised
           THEN /\ Return({})
                /\ UNCHANGED <<crawled, counted>>
           ELSE /\ crawled' = crawled + 1
                /\ counted' = counted \cup {url}
                /\ IF crawled' > crawl_limit
                   THEN Return({})
                   ELSE Return(filtered_links(r.links))
    /\ last' = [last EXCEPT !.ok = @ \cup {url}]
    /\ UNCHANGED <<dirs, visited_file, queue_file, crawl_limit, visited,
                   seed_url, to_crawl, fetch_count, run_fetched, rel, runs,
                   kills, failures, failed, aside>>

\* Mutant of FetchFails: the URL of a failed fetch is taken out of the visited
\* set, to be tried again.
FetchFails_forgets ==
    /\ pc = "fetching"
    /\ failures < MaxFailures
    /\ failures' = failures + 1
    /\ failed' = failed \cup {url}
    /\ visited' = visited \ {url}
    /\ visited_file' = save_visited(visited')
    /\ Return({})
    /\ UNCHANGED <<dirs, queue_file, artifacts, crawl_limit, crawled, counted,
                   seed_url, to_crawl, fetch_count, run_fetched, last, rel,
                   runs, kills, aside>>

\* Line 103-105: result.success is false.
FetchFails ==
    /\ pc = "fetching"
    /\ failures < MaxFailures
    /\ failures' = failures + 1
    /\ failed' = failed \cup {url}
    /\ Return({})
    /\ UNCHANGED <<disk, crawl_limit, visited, crawled, counted, seed_url,
                   to_crawl, fetch_count, run_fetched, last, rel, runs, kills,
                   aside>>

\* Mutant of FetchRaises: the exception is not caught per URL; it reaches
\* line 146 and crawl returns.
FetchRaises_aborts ==
    /\ pc = "fetching"
    /\ failures < MaxFailures
    /\ failures' = failures + 1
    /\ failed' = failed \cup {url}
    /\ pc' = "done"
    /\ UNCHANGED <<disk, crawl_limit, visited, crawled, counted, seed_url,
                   to_crawl, idx, next_batch, fetch_count, run_fetched, last,
                   rel, runs, kills, aside>>

\* Line 102 raises; line 117-119 catch it.
FetchRaises ==
    /\ pc = "fetching"
    /\ failures < MaxFailures
    /\ failures' = failures + 1
    /\ failed' = failed \cup {url}
    /\ Return({})
    /\ UNCHANGED <<disk, crawl_limit, visited, crawled, counted, seed_url,
                   to_crawl, fetch_count, run_fetched, last, rel, runs, kills,
                   aside>>

\* Mutant of unvisited_links: the visited links are kept.
unvisited_links_unfiltered == next_batch

\* Line 143: [link for link in next_batch if link not in self.visited]
unvisited_links == SelectSeq(next_batch, LAMBDA link : link \notin visited)

\* Line 144: list(set(to_crawl)), in any of the orders the set can be listed in.
deduplicated(links) == Perms(Range(links))

\* Line 143-145 and the loop test of line 129: the round ends, the next
\* frontier is saved, and crawl returns when it is empty.
EndRound ==
    /\ pc = "loop"
    /\ idx > Len(to_crawl)
    /\ \E q \in deduplicated(unvisited_links) :
        /\ to_crawl' = q
        /\ queue_file' = save_queue(q)
        /\ pc' = IF q = <<>> THEN "done" ELSE "loop"
        /\ last' = [last EXCEPT !.round = IF q = <<>> THEN @ ELSE @ + 1,
                                !.end = IF q = <<>> THEN "normal" ELSE @,
                                !.ok = {}]
    /\ idx' = 1
    /\ next_batch' = <<>>
    /\ UNCHANGED <<dirs, visited_file, artifacts, crawl_limit, visited, crawled,
                   counted, seed_url, fetch_count, run_fetched, rel, runs,
                   kills, failures, failed, aside>>

\* The process is killed between two steps: the files stay as they are.  The
\* URL in flight is the one marked visited whose result is not yet handled.
Kill ==
    /\ pc \in Entered
    /\ kills < MaxKills
    /\ NoProcess
    /\ last' = [last EXCEPT !.end = "killed",
                            !.inflight = IF pc \in {"arun", "fetching"} THEN url ELSE ""]
    /\ UNCHANGED disk

\* The process is killed inside save_visited: open(path, "w") has truncated
\* visited.json and json.dump has not completed.
KillInSaveVisited ==
    /\ pc = "loop"
    /\ idx <= Len(to_crawl)
    /\ ~Skipped(url)
    /\ ~Raised(url)
    /\ kills < MaxKills
    /\ visited_file' = Corrupt
    /\ NoProcess
    /\ last' = [last EXCEPT !.end = "torn"]
    /\ UNCHANGED <<dirs, queue_file, artifacts>>

\* The process is killed inside save_queue, likewise.
KillInSaveQueue ==
    /\ pc = "loop"
    /\ idx > Len(to_crawl)
    /\ kills < MaxKills
    /\ queue_file' = Corrupt
    /\ NoProcess
    /\ last' = [last EXCEPT !.end = "torn"]
    /\ UNCHANGED <<dirs, visited_file, artifacts>>

\* The process is killed inside write_to_file: the artifact exists and is empty.
KillInWrite ==
    /\ pc = "fetching"
    /\ kills < MaxKills
    /\ artifacts' = write_to_file(url, "")
    /\ NoProcess
    /\ last' = [last EXCEPT !.end = "torn"]
    /\ UNCHANGED <<dirs, visited_file, queue_file>>

Next ==
    \/ \E limit \in Limits : Construct(limit)
    \/ \E website \in Websites, limit \in Limits : crawl_website(website, limit)
    \/ \E website \in Websites, limit \in Limits : crawl_website_async(website, limit)
    \/ \E seed \in Seeds : Crawl(seed)
    \/ LoadQueue
    \/ SkipUrl
    \/ CrawlExcepts
    \/ MarkVisited
    \/ IssueFetch
    \/ FetchSucceeds
    \/ FetchFails
    \/ FetchRaises
    \/ EndRound
    \/ Kill
    \/ KillInSaveVisited
    \/ KillInSaveQueue
    \/ KillInWrite

Spec == Init /\ [][Next]_vars

\* The steps of a crawl call.  asyncio.run drives the coroutine as long as the
\* process lives, and the page-fetch engine answers every call: a step that
\* stays possible is taken.
CrawlStep ==
    \/ LoadQueue
    \/ SkipUrl
    \/ CrawlExcepts
    \/ MarkVisited
    \/ IssueFetch
    \/ FetchSucceeds
    \/ FetchFails
    \/ FetchRaises
    \/ EndRound

\* Weak fairness of CrawlStep, written out: in every state of a running call one
\* of its steps is possible and changes idx or pc, so ENABLED <<CrawlStep>>_vars
\* is pc \in Entered.
CrawlStepFair == <>[](pc \in Entered) => []<><<CrawlStep>>_vars

FairSpec == Spec /\ CrawlStepFair /\ WF_vars(IssueFetch) /\ WF_vars(EndRound)

(***************************************************************************)
(* The methods called on their own: extract_links on page contents and     *)
(* base URLs, save_json / load_json on one file whose content is the text  *)
(* json.dump writes, and write_to_file and crawl_and_scrape on a crawler   *)
(* that is not in crawl                                                    *)
(***************************************************************************)

\* '\\u{0:04x}'.format(n)
hex4(n) ==
    "\\u" \o hex(n \div 4096) \o hex((n \div 256) % 16)
          \o hex((n \div 16) % 16) \o hex(n % 16)

\* json.dump of a str (ensure_ascii): what is written for the character c.
json_escape_char(c) ==
    CASE c = "\"" -> "\\\""
      [] c = "\\" -> "\\\\"
      [] c = "\n" -> "\\n"
      [] c = "\r" -> "\\r"
      [] c = "\t" -> "\\t"
      [] c = "\f" -> "\\f"
      [] c = chr(8) -> "\\b"
      [] OTHER -> IF c \in PrintableAscii THEN c ELSE hex4(ord(c))

RECURSIVE json_escape(_)
json_escape(s) ==
    IF s = "" THEN "" ELSE json_escape_char(Ch(s, 1)) \o json_escape(From(s, 2))

json_string(s) == "\"" \o json_escape(s) \o "\""

\* The items of a list, separated by ", " (the default separators).
RECURSIVE json_items(_)
json_items(data) ==
    IF data = <<>> THEN ""
    ELSE IF Len(data) = 1 THEN json_string(data[1])
    ELSE json_string(data[1]) \o ", " \o json_items(Tail(data))

\* json.dump(data, f) for a list of str: the text written.
json_dump(data) == "[" \o json_items(data) \o "]"

\* json.load: the character an escape sequence stands for ("" : no such escape).
json_unescape_char(c) ==
    CASE c = "\"" -> "\""
      [] c = "\\" -> "\\"
      [] c = "/" -> "/"
      [] c = "b" -> chr(8)
      [] c = "f" -> "\f"
      [] c = "n" -> "\n"
      [] c = "r" -> "\r"
      [] c = "t" -> "\t"
      [] OTHER -> ""

\* json.load: the character of \uXXXX for the four characters esc after the u
\* ("": not four hexadecimal digits, or a character outside the alphabet).
json_unicode(esc) ==
    IF Len(esc) = 4 /\ \A k \in 1..4 : Ch(esc, k) \in HexDigits
    THEN chr(int16(esc, 0))
    ELSE ""

JsonError == [ok |-> FALSE, value |-> <<>>, end |-> 0]

\* The characters json.load skips between the tokens, and the ones it does not
\* accept unescaped in a string.
JsonWhitespace == {" ", "\t", "\n", "\r"}

JsonControl == {chr(n) : n \in 1..31}

\* WHITESPACE.match(text, i).end(): the first position from i on that holds no
\* white space.
RECURSIVE skip_whitespace(_, _)
skip_whitespace(text, i) ==
    IF Ch(text, i) \in JsonWhitespace THEN skip_whitespace(text, i + 1) ELSE i

\* The character c in front of the rest r of a scanned string.
scanned_char(c, r) ==
    [ok |-> r.ok /\ c # "", value |-> c \o r.value, end |-> r.end]

\* json.load inside a string, from position i: its value and the position of
\* the closing quote.  A control character or the end of the text is an error.
RECURSIVE scan_string(_, _)
scan_string(text, i) ==
    IF i > Len(text) \/ Ch(text, i) \in JsonControl
    THEN [ok |-> FALSE, value |-> "", end |-> 0]
    ELSE IF Ch(text, i) = "\"" THEN [ok |-> TRUE, value |-> "", end |-> i]
    ELSE IF Sub(text, i, i + 1) = "\\u"
    THEN scanned_char(json_unicode(Sub(text, i + 2, i + 5)), scan_string(text, i + 6))
    ELSE IF Ch(text, i) = "\\"
    THEN scanned_char(json_unescape_char(Ch(text, i + 1)), scan_string(text, i + 2))
    ELSE scanned_char(Ch(text, i), scan_string(text, i + 1))

\* The item x in front of the rest r of a scanned list.
scanned_item(x, r) ==
    [ok |-> r.ok, value |-> <<x>> \o r.value, end |-> r.end]

RECURSIVE scan_items(_, _)

\* json.load after an item x of a list, at the first position j behind it that
\* holds no white space: `]` ends the list and only white space may follow, `,`
\* goes on.
scan_after_item(text, x, j) ==
    IF Ch(text, j) = "]"
    THEN IF skip_whitespace(text, j + 1) > Len(text)
         THEN [ok |-> TRUE, value |-> <<x>>, end |-> j]
         ELSE JsonError
    ELSE IF Ch(text, j) = ","
    THEN scanned_item(x, scan_items(text, skip_whitespace(text, j + 1)))
    ELSE JsonError

\* json.load after the string s of a list.
scan_after_string(text, s) ==
    IF ~s.ok THEN JsonError
    ELSE scan_after_item(text, s.value, skip_whitespace(text, s.end + 1))

\* json.load at position i of a list, where an item starts.
scan_items(text, i) ==
    IF Ch(text, i) # "\"" THEN JsonError
    ELSE scan_after_string(text, scan_string(text, i + 1))

\* json.load behind the `[` of a list, at the first position i that holds no
\* white space.
scan_array(text, i) ==
    IF Ch(text, i) = "]"
    THEN IF skip_whitespace(text, i + 1) > Len(text)
         THEN [ok |-> TRUE, value |-> <<>>, end |-> i]
         ELSE JsonError
    ELSE scan_items(text, i)

\* json.load(f) of a text that is a list of str, as json.dump writes it for the
\* crawler's collections; on any other text the model meets (a cut-off or a
\* doubled one) json.load raises.
json_load(text) ==
    LET i == skip_whitespace(text, 1)
    IN  IF Ch(text, i) = "[" THEN scan_array(text, skip_whitespace(text, i + 1))
        ELSE JsonError

\* A path that does not exist, and a file with its text.
NoFile == [exists |-> FALSE, text |-> ""]

TextFile(text) == [exists |-> TRUE, text |-> text]

\* load_json(path, default): the value returned, or raised.
load_json(file, default) ==
    IF ~file.exists THEN [state |-> "returned", data |-> default]
    ELSE IF json_load(file.text).ok
    THEN [state |-> "returned", data |-> json_load(file.text).value]
    ELSE [state |-> "raised", data |-> <<>>]

\* open(path, "a"): the text is added to the file.
save_json_append(file, data) == TextFile(file.text \o json_dump(data))

\* save_json(path, data): open(path, "w") truncates, json.dump writes.
save_json(file, data) == TextFile(json_dump(data))

\* Page contents: link targets that are relative, absolute, with a fragment,
\* of another host, of a host that only contains the domain, with user
\* information, without a host, with a tab and with a parameter, ones that
\* urljoin cannot parse (an unbalanced bracket, a bracketed host that is no IP
\* literal), one with an IPvFuture host, and plain links with a character that
\* is not ASCII and with a form feed between them.
Pieces ==
    {"[a](/a)", "[t](/a#t)", "[b](b#t)", "https://o.x/p", "[c](https://d.c/cart)",
     "[x](https://xd.c.o/q#f)", "[m](mailto:a@d.c)", "https://d.c/a#s",
     "[e](//d.c/z)", "[bad](//[v6)", "[u](../up)", "[q](?q=1#f)",
     "[i](https://d.c@o.x/p)", "[k](//[x]/y)", "[v](//[v1.d.c]/y)",
     "[w](/a\tb;p)", "https://d.c/café", "https://d.c/a\fhttps://d.c/b"}

Markdowns == Pieces \cup {p \o " " \o q : p \in Pieces, q \in Pieces}

Bases == {"https://d.c", "https://d.c/a/b", "https://o.x/p"}

\* The strings saved: URLs, and strings with the characters json escapes or
\* uses itself (a quote, a backslash, a form feed, a backspace, a character
\* that is not ASCII).
Saved ==
    {"https://d.c/a", "https://d.c/b", "q\"x", "b\\", "a\", \"b", "]",
     "a\fb", "a" \o chr(8), "https://d.c/café"}

Collections == {<<>>} \cup {<<s>> : s \in Saved} \cup {<<s, t>> : s \in Saved, t \in Saved}

\* The file before the call: absent, or written by an earlier save.
PureFiles == {NoFile, TextFile(json_dump(<<"https://d.c/old">>))}

\* The url arguments of a direct call of write_to_file or crawl_and_scrape: a
\* page, an excluded URL, a URL of another host, a URL urlparse raises on.
DirectUrls == {"https://d.c/a", "https://d.c/cart", "https://o.x/p", "https://[v6]/x"}

PureCalls ==
    {[fn |-> "extract_links", markdown |-> markdown, base_url |-> base_url] :
        markdown \in Markdowns, base_url \in Bases}
    \cup {[fn |-> fn, data |-> data, file |-> file] :
            fn \in {"save_queue", "save_visited"}, data \in Collections,
            file \in PureFiles}
    \cup {[fn |-> fn, file |-> file] :
            fn \in {"load_queue", "load_visited"}, file \in PureFiles}
    \cup {[fn |-> "write_to_file", url |-> u, markdown |-> markdown] :
            u \in DirectUrls, markdown \in {"", "[a](/a)"}}
    \cup {[fn |-> "crawl_and_scrape", url |-> u, visited |-> v, limit |-> limit] :
            u \in DirectUrls, v \in {{}, {"https://d.c/a"}}, limit \in {0, SmallLimit}}

PureInit ==
    /\ call \in PureCalls
    /\ dirs = TRUE
    /\ visited_file = Absent
    /\ queue_file = Absent
    /\ artifacts = <<>>
    /\ pc = "none"
    /\ crawl_limit = IF call.fn = "crawl_and_scrape" THEN call.limit ELSE DefaultLimit
    /\ visited = IF call.fn = "crawl_and_scrape" THEN call.visited ELSE {}
    /\ crawled = 0
    /\ counted = {}
    /\ seed_url = ""
    /\ to_crawl = <<>>
    /\ idx = 1
    /\ next_batch = <<>>
    /\ fetch_count = <<>>
    /\ run_fetched = {}
    /\ last = NoRun
    /\ rel = NoRel
    /\ runs = 0
    /\ kills = 0
    /\ failures = 0
    /\ failed = {}
    /\ result = NoResult
    /\ json_file = IF "file" \in DOMAIN call THEN call.file ELSE NoFile
    /\ crawlers = <<>>
    /\ fs = <<>>
    /\ alone = <<>>

crawler == <<disk, pc, crawl_limit, visited, crawled, counted, seed_url,
             to_crawl, idx, next_batch, fetch_count, run_fetched, last, rel,
             runs, kills, failures, failed>>

\* links = await self.extract_links(markdown, base_url)
CallExtractLinks ==
    /\ call.fn = "extract_links"
    /\ result = NoResult
    /\ result' = [state |-> IF extract_links(call.markdown, call.base_url).raised
                            THEN "raised" ELSE "returned",
                  links |-> extract_links(call.markdown, call.base_url).links]
    /\ UNCHANGED <<crawler, pair, call, json_file>>

\* save_queue(queue): the list as it is.
CallSaveQueue ==
    /\ call.fn = "save_queue"
    /\ result = NoResult
    /\ json_file' = save_json(json_file, call.data)
    /\ result' = [state |-> "saved"]
    /\ UNCHANGED <<crawler, pair, call>>

\* save_visited() with self.visited the elements of call.data: list(set) in
\* some order.
CallSaveVisited ==
    /\ call.fn = "save_visited"
    /\ result = NoResult
    /\ \E order \in Perms(Range(call.data)) : json_file' = save_json(json_file, order)
    /\ result' = [state |-> "saved"]
    /\ UNCHANGED <<crawler, pair, call>>

\* load_queue(), as the first call or right after the save.
CallLoadQueue ==
    /\ \/ call.fn = "load_queue" /\ result = NoResult
       \/ call.fn = "save_queue" /\ result.state = "saved"
    /\ result' = load_json(json_file, <<>>)
    /\ UNCHANGED <<crawler, pair, call, json_file>>

\* load_visited(): set(load_json(...)).
CallLoadVisited ==
    /\ \/ call.fn = "load_visited" /\ result = NoResult
       \/ call.fn = "save_visited" /\ result.state = "saved"
    /\ result' = [load_json(json_file, <<>>) EXCEPT !.data = Range(@)]
    /\ UNCHANGED <<crawler, pair, call, json_file>>

\* write_to_file(url, markdown) called on its own: url2path raises, or the
\* artifact is written.
CallWriteToFile ==
    /\ call.fn = "write_to_file"
    /\ result = NoResult
    /\ IF url2path_raises(call.url)
       THEN /\ result' = [state |-> "raised"]
            /\ UNCHANGED artifacts
       ELSE /\ result' = [state |-> "returned"]
            /\ artifacts' = write_to_file(call.url, call.markdown)
    /\ UNCHANGED <<dirs, visited_file, queue_file, pc, crawl_limit, visited,
                   crawled, counted, seed_url, to_crawl, idx, next_batch,
                   fetch_count, run_fetched, last, rel, runs, kills, failures,
                   failed, pair, call, json_file>>

\* crawl_and_scrape(url, crawler, session) called on its own, line 94-102: an
\* exception of line 95 is caught by line 117; `return []` at line 96 or 98;
\* else the URL is added and saved and crawler.arun is awaited.
CallCrawlAndScrape ==
    /\ call.fn = "crawl_and_scrape"
    /\ result = NoResult
    /\ IF url2path_raises(call.url) \/ ~OnDomain(call.url) \/ call.url \in visited
       THEN /\ result' = [state |-> "returned", links |-> {}]
            /\ UNCHANGED <<visited, visited_file, fetch_count>>
       ELSE /\ result' = [state |-> "awaiting"]
            /\ visited' = visited \cup {call.url}
            /\ visited_file' = save_visited(visited')
            /\ fetch_count' = Counted(call.url)
    /\ UNCHANGED <<dirs, queue_file, artifacts, pc, crawl_limit, crawled,
                   counted, seed_url, to_crawl, idx, next_batch, run_fetched,
                   last, rel, runs, kills, failures, failed, pair, call,
                   json_file>>

\* Line 102-119 of that call: the fetch fails or raises (return []), or it
\* succeeds: the artifact is written, the links are extracted and filtered,
\* the page is counted, and above the ceiling line 115-119 return [].
ScrapeReturns(ok) ==
    /\ call.fn = "crawl_and_scrape"
    /\ result = [state |-> "awaiting"]
    /\ IF ~ok
       THEN /\ result' = [state |-> "returned", links |-> {}]
            /\ UNCHANGED <<artifacts, crawled>>
       ELSE /\ artifacts' = write_to_file(call.url, Markdown(call.url))
            /\ LET r == extract_page(call.url)
               IN  IF r.raised
                   THEN /\ result' = [state |-> "returned", links |-> {}]
                        /\ UNCHANGED crawled
                   ELSE /\ crawled' = crawled + 1
                        /\ result' =
                             [state |-> "returned",
                              links |-> IF crawled' > crawl_limit THEN {}
                                        ELSE filtered_links(r.links)]
    /\ UNCHANGED <<dirs, visited_file, queue_file, pc, crawl_limit, visited,
                   counted, seed_url, to_crawl, idx, next_batch, fetch_count,
                   run_fetched, last, rel, runs, kills, failures, failed, pair,
                   call, json_file>>

PureNext ==
    \/ CallWriteToFile
    \/ CallCrawlAndScrape
    \/ \E ok \in BOOLEAN : ScrapeReturns(ok)
    \/ CallExtractLinks
    \/ CallSaveQueue
    \/ CallSaveVisited
    \/ CallLoadQueue
    \/ CallLoadVisited

PureSpec == PureInit /\ [][PureNext]_vars

(***************************************************************************)
(* Two WebCrawler instances in one process, with different output          *)
(* directories, interleaved at the awaits of line 126 and of crawler.arun; *)
(* next to them, each instance run alone, taking the same steps            *)
(***************************************************************************)

\* output_dir and seed_url of the two instances.
OutputDirs == <<"o1", "o2">>

PairSeeds == <<"https://d.c", "https://d.c/c">>

PairLimits == <<DefaultLimit, SmallLimit>>

\* self.visited_file, self.queue_file (line 27-29) and url2path (line 70).
visited_path(output_dir) == output_dir \o "/scraped/visited.json"

queue_path(output_dir) == output_dir \o "/scraped/queue.json"

\* A content_dir that does not depend on output_dir.
content_path_shared(output_dir, u) == "scraped/content/" \o url2path(u)

content_path(output_dir, u) == output_dir \o "/scraped/content/" \o url2path(u)

\* load_json and save_json / write_to_file on a file system.
read_file(files, path, default) ==
    IF path \in DOMAIN files THEN files[path] ELSE default

write_file(files, path, content) ==
    [p \in DOMAIN files \cup {path} |-> IF p = path THEN content ELSE files[p]]

\* WebCrawler(domain, output_dir, crawl_limit=limit)
new_crawler(output_dir, limit) ==
    [output_dir |-> output_dir, crawl_limit |-> limit, pc |-> "ready",
     visited |-> {}, crawled |-> 0, to_crawl |-> <<>>, idx |-> 1,
     next_batch |-> <<>>]

\* An instance c and the file system it works on.
World(c, files) == [c |-> c, files |-> files]

\* Line 124, up to the awaits of line 126.
begin_crawl(c, files) ==
    World([c EXCEPT !.pc = "entering",
                    !.visited = read_file(files, visited_path(c.output_dir), {})],
          files)

\* Line 127.
enter_loop(c, files, seed) ==
    World([c EXCEPT !.pc = "loop",
                    !.to_crawl =
                        IF read_file(files, queue_path(c.output_dir), <<>>) = <<>>
                        THEN <<seed>>
                        ELSE read_file(files, queue_path(c.output_dir), <<>>)],
          files)

\* Line 132-140 and line 95-98.
skipped_by(c, files, u) ==
    \/ u \in c.visited
    \/ Excluded(u)
    \/ /\ ~url2path_raises(u)
       /\ \/ content_path(c.output_dir, u) \in DOMAIN files
          \/ ~OnDomain(u)

\* Line 138 raises for u.
raised_by(c, u) ==
    /\ u \notin c.visited
    /\ ~Excluded(u)
    /\ url2path_raises(u)

\* The elements of the set S in the order the process iterates its sets in:
\* list(S) of line 144, `for link in links` of line 110.
listed(S, order) == SelectSeq(order, LAMBDA u : u \in S)

\* Line 143-144: the set the next frontier is the list of.
next_frontier(c) == {l \in Range(c.next_batch) : l \notin c.visited}

\* Line 143-145 and the loop test of line 129; the next frontier is listed in
\* the given order.
end_round(c, files, order) ==
    World([c EXCEPT !.to_crawl = listed(next_frontier(c), order),
                    !.idx = 1,
                    !.next_batch = <<>>,
                    !.pc = IF next_frontier(c) = {} THEN "done" ELSE "loop"],
          write_file(files, queue_path(c.output_dir), listed(next_frontier(c), order)))

\* Line 146-147: crawl returns.
crawl_excepts(c, files) ==
    World([c EXCEPT !.to_crawl = <<>>, !.idx = 1, !.next_batch = <<>>,
                    !.pc = "done"],
          files)

\* Line 99-100, up to the await of line 102.
mark_visited(c, files, u) ==
    World([c EXCEPT !.visited = @ \cup {u}, !.pc = "fetching"],
          write_file(files, visited_path(c.output_dir), c.visited \cup {u}))

\* One step of the for loop that does not fetch, or the end of the round.
advance(c, files, order) ==
    IF c.idx > Len(c.to_crawl)
    THEN end_round(c, files, order)
    ELSE IF skipped_by(c, files, c.to_crawl[c.idx])
    THEN World([c EXCEPT !.idx = @ + 1], files)
    ELSE IF raised_by(c, c.to_crawl[c.idx])
    THEN crawl_excepts(c, files)
    ELSE mark_visited(c, files, c.to_crawl[c.idx])

\* Line 107-116: the links crawl_and_scrape returns for the page of u with
\* self.crawled = n before it: none when extract_links raises or the ceiling
\* is exceeded.
returned_links(u, n, limit) ==
    IF extract_page(u).raised \/ n + 1 > limit
    THEN {}
    ELSE filtered_links(extract_page(u).links)

\* Line 106-116 for the page of u; the links are iterated in the given order.
fetch_succeeded(c, files, u, order) ==
    World([c EXCEPT !.crawled = IF extract_page(u).raised THEN @ ELSE @ + 1,
                    !.next_batch =
                        @ \o listed(returned_links(u, c.crawled, c.crawl_limit), order),
                    !.idx = @ + 1,
                    !.pc = "loop"],
          write_file(files, content_path(c.output_dir, u), Markdown(u)))

\* crawler.arun returns, with result.success = ok.
fetch_returned(c, files, ok, order) ==
    IF ok
    THEN fetch_succeeded(c, files, c.to_crawl[c.idx], order)
    ELSE World([c EXCEPT !.idx = @ + 1, !.pc = "loop"], files)

PairInit ==
    /\ dirs = TRUE
    /\ visited_file = Absent
    /\ queue_file = Absent
    /\ artifacts = <<>>
    /\ pc = "none"
    /\ crawl_limit = DefaultLimit
    /\ visited = {}
    /\ crawled = 0
    /\ counted = {}
    /\ seed_url = ""
    /\ to_crawl = <<>>
    /\ idx = 1
    /\ next_batch = <<>>
    /\ fetch_count = <<>>
    /\ run_fetched = {}
    /\ last = NoRun
    /\ rel = NoRel
    /\ runs = 0
    /\ kills = 0
    /\ failures = 0
    /\ failed = {}
    /\ call = NoCall
    /\ result = NoResult
    /\ json_file = ""
    /\ crawlers = [i \in 1..2 |-> new_crawler(OutputDirs[i], PairLimits[i])]
    /\ fs = <<>>
    /\ alone = [i \in 1..2 |-> World(new_crawler(OutputDirs[i], PairLimits[i]), <<>>)]

\* Instance i takes a step on the shared file system, to the world w, and the
\* same step alone, to the world a.
InstanceStep(i, w, a) ==
    /\ crawlers' = [crawlers EXCEPT ![i] = w.c]
    /\ fs' = w.files
    /\ alone' = [alone EXCEPT ![i] = IF @.c.pc = crawlers[i].pc THEN a ELSE @]
    /\ UNCHANGED <<crawler, call, result, json_file>>

\* await crawl(seed_url) of instance i starts.
InstanceBegins(i) ==
    /\ crawlers[i].pc = "ready"
    /\ InstanceStep(i, begin_crawl(crawlers[i], fs),
                       begin_crawl(alone[i].c, alone[i].files))

\* The `async with` of instance i is entered.
InstanceEnters(i) ==
    /\ crawlers[i].pc = "entering"
    /\ InstanceStep(i, enter_loop(crawlers[i], fs, PairSeeds[i]),
                       enter_loop(alone[i].c, alone[i].files, PairSeeds[i]))

\* Instance i runs on to its next await, or to the end of crawl.  The sets of
\* the process are iterated in the same order in the run alone.
InstanceAdvances(i) ==
    /\ crawlers[i].pc = "loop"
    /\ \E order \in Perms(IF crawlers[i].idx > Len(crawlers[i].to_crawl)
                          THEN next_frontier(crawlers[i]) ELSE {}) :
        InstanceStep(i, advance(crawlers[i], fs, order),
                        advance(alone[i].c, alone[i].files, order))

\* The await of instance i returns.
InstanceFetchReturns(i, ok) ==
    /\ crawlers[i].pc = "fetching"
    /\ \E order \in Perms(returned_links(crawlers[i].to_crawl[crawlers[i].idx],
                                         crawlers[i].crawled,
                                         crawlers[i].crawl_limit)) :
        InstanceStep(i, fetch_returned(crawlers[i], fs, ok, order),
                        fetch_returned(alone[i].c, alone[i].files, ok, order))

PairNext ==
    \/ \E i \in 1..2 : InstanceBegins(i)
    \/ \E i \in 1..2 : InstanceEnters(i)
    \/ \E i \in 1..2 : InstanceAdvances(i)
    \/ \E i \in 1..2, ok \in BOOLEAN : InstanceFetchReturns(i, ok)

PairSpec == PairInit /\ [][PairNext]_vars

(***************************************************************************)
(* Definitions used by the properties                                      *)
(***************************************************************************)

\* The links crawl_and_scrape returns for page u when its fetch succeeds and
\* the ceiling is not exceeded.
PageLinks(u) ==
    LET r == extract_page(u)
    IN  IF r.raised THEN {} ELSE filtered_links(r.links)

RECURSIVE Closure(_)
Closure(S) ==
    LET T == S \cup UNION {PageLinks(u) : u \in S}
    IN  IF T = S THEN S ELSE Closure(T)

\* The URLs a crawl of seed reaches when every fetch succeeds.
Reach(seed) ==
    IF OnDomain(seed) /\ ~Excluded(seed) THEN Closure({seed}) ELSE {}

\* No two URLs of S share an artifact.
NoCollision(S) == \A u, v \in S : url2path(u) = url2path(v) => u = v

NoDuplicates(q) == \A i, j \in 1..Len(q) : q[i] = q[j] => i = j

\* The for loop is at a URL of the frontier.
AtUrl == pc = "loop" /\ idx <= Len(to_crawl)

\* An uninterrupted first crawl under the default ceiling, without failures and
\* without colliding artifacts, fetches exactly the URLs it reaches.
UninterruptedCrawlFetchesReach ==
    (/\ pc = "done" /\ last.end = "normal" /\ runs = 1 /\ last.first /\ failures = 0
     /\ crawl_limit = DefaultLimit
     /\ NoCollision(Reach(last.seed)))
        => DOMAIN fetch_count = Reach(last.seed)

(***************************************************************************)
(* Properties                                                              *)
(***************************************************************************)

\* C1: over all the crawl calls on one output directory, killed and restarted
\* or not, crawler.arun is called for a URL at most once.
C1_FetchedAtMostOnce == \A u \in DOMAIN fetch_count : fetch_count[u] <= 1

\* C1, witness: a crawl was killed with the fetch of a URL in flight, the
\* next crawl with the same seed has run to its end, and the URL was fetched once.
C1_Witness ==
    /\ pc = "done" /\ last.end = "normal"
    /\ rel.kind = "resume"
    /\ rel.lost \in DOMAIN fetch_count
    /\ rel.lost \notin run_fetched
    /\ fetch_count[rel.lost] = 1

\* C2: once more than crawl_limit pages have been crawled, the run ends before
\* another fetch is issued: no fetch is in flight with self.crawled above the
\* ceiling.
C2_NoFetchAboveCeiling == pc = "fetching" => crawled <= crawl_limit

\* C3: a crawl killed between two writes and run again with the same seed
\* fetches, over the two runs, every URL an uninterrupted crawl fetches, but
\* for the URL whose fetch was in flight at the kill.  Stated for the first
\* crawl of an output directory, under the default ceiling, without failed
\* fetches and without colliding artifacts, where the uninterrupted crawl
\* fetches Reach(seed); and read generously: with the URL in flight, the URLs
\* reached through it may be missing too.
C3_ResumeLosesOnlyInFlight ==
    (/\ pc = "done" /\ last.end = "normal" /\ runs = 2 /\ failures = 0
     /\ rel.kind = "resume" /\ rel.first
     /\ rel.limit = DefaultLimit /\ crawl_limit = DefaultLimit
     /\ NoCollision(Reach(last.seed)))
        => Reach(last.seed) \ DOMAIN fetch_count
              \subseteq (IF rel.lost = "" THEN {} ELSE Closure({rel.lost}))

\* C4: after the ceiling is exceeded the frontier saved by the last completed
\* round stays in queue.json: the running crawl does not overwrite it.
C4_QueueKeptAboveCeiling ==
    [][(pc \in Running /\ crawled > crawl_limit /\ pc' # "killed")
          => queue_file' = queue_file]_vars

\* C5, as stated: a crawl that follows a crawl with the same seed that
\* returned normally issues no fetch and leaves the visited set, visited.json
\* and the artifacts as they are.
C5_RepeatIsIdle ==
    [][(pc \in Running /\ rel.kind = "repeat")
          => /\ fetch_count' = fetch_count
             /\ visited_file' = visited_file
             /\ artifacts' = artifacts
             /\ (pc' # "killed" => visited' = visited)]_vars

\* C5, amended: the same, when the crawl before started from an empty or
\* absent queue.json, so that its frontier was [seed_url].
C5_RepeatOfSeededIsIdle ==
    [][(pc \in Running /\ rel.kind = "repeat" /\ rel.seeded)
          => /\ fetch_count' = fetch_count
             /\ visited_file' = visited_file
             /\ artifacts' = artifacts
             /\ (pc' # "killed" => visited' = visited)]_vars

\* C5, witness: the repeat of a seeded crawl that fetched its seed has
\* returned, without a fetch.
C5_Witness ==
    /\ pc = "done" /\ last.end = "normal"
    /\ rel.kind = "repeat"
    /\ rel.seeded
    /\ last.seed \in DOMAIN fetch_count
    /\ run_fetched = {}

\* C6: a URL whose artifact exists when the for loop comes to it is not
\* fetched, in the visited set or not: the loop moves on to the next URL.
C6_ExistingArtifactNotFetched ==
    [][(AtUrl /\ url2path(to_crawl[idx]) \in DOMAIN artifacts)
          => /\ fetch_count' = fetch_count
             /\ visited' \in {visited, {}}
             /\ pc' \in {"loop", "killed"}
             /\ (pc' = "loop" => idx' = idx + 1 /\ to_crawl' = to_crawl)]_vars

\* C6, witness: the loop has passed a URL of the frontier that is not in the
\* visited set and whose artifact exists, without fetching it.
C6_Witness ==
    /\ pc = "loop"
    /\ \E k \in 1..(idx - 1) :
        /\ k <= Len(to_crawl)
        /\ url2path(to_crawl[k]) \in DOMAIN artifacts
        /\ to_crawl[k] \notin visited
        /\ to_crawl[k] \notin DOMAIN fetch_count

\* C7: a fetch that fails or raises, and an extraction that raises, end the
\* processing of that URL only: the loop goes on with the next URL of the same
\* frontier and keeps the links the round has collected.
C7_FailureKeepsRound ==
    [][(/\ pc = "fetching" /\ pc' # "killed"
        /\ (failures' # failures \/ extract_page(url).raised))
          => /\ pc' = "loop"
             /\ to_crawl' = to_crawl
             /\ idx' = idx + 1
             /\ next_batch' = next_batch]_vars

\* C7, witness: the fetch of the first URL of a frontier failed and left no
\* artifact, and the loop is at the second URL.
C7_Witness ==
    /\ pc = "loop"
    /\ failures = 1
    /\ idx = 2
    /\ Len(to_crawl) >= 2
    /\ to_crawl[1] \in run_fetched
    /\ url2path(to_crawl[1]) \notin DOMAIN artifacts

\* C8: while a fetch of a URL is being issued or is in flight, the URL is in
\* self.visited and in visited.json.
C8_VisitedSavedBeforeFetch ==
    pc \in {"arun", "fetching"}
        => /\ url \in visited
           /\ visited_file.state = "ok"
           /\ url \in visited_file.data

\* C8, witness: a fetch is in flight.
C8_Witness == pc = "fetching" /\ url \in run_fetched /\ fetch_count[url] = 1

\* C9: a frontier written to queue.json holds no URL of the visited set as it
\* is at the save, and no URL twice.
C9_SavedFrontierUnvisited ==
    [][(queue_file' # queue_file /\ queue_file'.state = "ok")
          => /\ Range(queue_file'.data) \cap visited' = {}
             /\ NoDuplicates(queue_file'.data)]_vars

\* C9, witness: a frontier of two URLs has just been saved after a round whose
\* pages linked to a visited URL.
C9_Witness ==
    /\ pc = "loop"
    /\ idx = 1
    /\ last.round = 3
    /\ queue_file = File(to_crawl)
    /\ Len(to_crawl) = 2
    /\ "https://d.c/a" \in visited
    /\ "https://d.c/a" \in PageLinks("https://d.c/b")

\* C10: a URL that contains an exclusion pattern is in no list of collected
\* links, in no frontier built from them and in no queue.json the crawler
\* writes.  The first frontier of a run is not built from links: it is
\* [seed_url] or what queue.json held.
C10_ExcludedNeverQueued ==
    /\ [](/\ \A k \in 1..Len(next_batch) : ~Excluded(next_batch[k])
          /\ (pc \in Running /\ last.round > 1)
                => \A k \in 1..Len(to_crawl) : ~Excluded(to_crawl[k]))
    /\ [][(queue_file' # queue_file /\ queue_file'.state = "ok")
            => \A k \in 1..Len(queue_file'.data) : ~Excluded(queue_file'.data[k])]_vars

\* C10, witness: a page that links to an excluded URL was fetched and the
\* frontier built from its links is being processed.
C10_Witness ==
    /\ pc = "loop"
    /\ last.round = 2
    /\ to_crawl # <<>>
    /\ "https://d.c" \in run_fetched
    /\ "https://d.c/cart" \in extract_links(Markdown("https://d.c"), "https://d.c").links
    /\ queue_file = File(to_crawl)

\* C11 as stated: no fetch is issued for a URL whose host does not contain the
\* domain or that contains an exclusion pattern, and no such URL is in the
\* visited set or in visited.json.
C11_NeverFetchedOffHostOrExcluded ==
    \A u \in DOMAIN fetch_count \cup visited \cup visited_file.data :
        HostOnDomain(u) /\ ~Excluded(u)

\* C11, amended: no fetch is issued for a URL whose netloc (user information,
\* host and port) does not contain the domain or that contains an exclusion
\* pattern, and no such URL is in the visited set or in visited.json; the
\* frontier may hold such URLs, as the seed or from queue.json.
C11_NeverFetchedOffDomainOrExcluded ==
    \A u \in DOMAIN fetch_count \cup visited \cup visited_file.data :
        OnDomain(u) /\ ~Excluded(u)

\* C11, witness: the loop has passed an excluded URL and a URL of another
\* host, both loaded from queue.json, and is at the third URL with nothing
\* fetched and nothing visited.
C11_Witness ==
    /\ pc = "loop"
    /\ last.round = 1
    /\ ~last.seeded
    /\ idx = 3
    /\ Len(to_crawl) = 3
    /\ Excluded(to_crawl[1])
    /\ ~OnDomain(to_crawl[2])
    /\ fetch_count = <<>>
    /\ visited = {}

\* C12: self.visited loses no URL while a crawl call runs; a visited.json that
\* parses holds every URL of the visited.json before it; a visited.json that
\* does not parse (a write cut short) is never replaced; and neither
\* visited.json nor queue.json is deleted.
C12_VisitedOnlyGrows ==
    [][/\ (pc \in Running /\ pc' \in Running) => visited \subseteq visited'
       /\ (visited_file.state = "ok" /\ visited_file'.state = "ok")
             => visited_file.data \subseteq visited_file'.data
       /\ visited_file.state = "corrupt" => visited_file'.state = "corrupt"
       /\ visited_file.state # "absent" => visited_file'.state # "absent"
       /\ queue_file.state # "absent" => queue_file'.state # "absent"]_vars

\* C12, witness: a later crawl call has saved visited.json with a URL of its
\* own next to a URL an earlier call had saved.
C12_Witness ==
    /\ pc \in Running
    /\ runs >= 2
    /\ visited_file.state = "ok"
    /\ run_fetched # {}
    /\ run_fetched \subseteq visited_file.data
    /\ visited_file.data \ run_fetched # {}
    /\ visited = visited_file.data

\* C13: a crawl call returns from its while loop exactly when the frontier
\* built at the end of a round is empty; queue.json then holds the empty
\* frontier; and every crawl call that runs comes to an end.  The only other
\* ways out of the loop are not normal ones: the process is killed, or line
\* 138 raises on a URL of the frontier and line 146 catches it.
C13_RunEndsWithEmptyFrontier ==
    /\ []((pc = "done" /\ last.end = "normal")
            => (to_crawl = <<>> /\ queue_file = File(<<>>)))
    /\ [][(pc \in Running /\ pc' \notin Running /\ pc' # "killed")
            => /\ pc' = "done"
               /\ \/ /\ idx > Len(to_crawl)
                     /\ unvisited_links = <<>>
                     /\ queue_file' = File(<<>>)
                     /\ last'.end = "normal"
                  \/ /\ idx <= Len(to_crawl)
                     /\ url2path_raises(url)
                     /\ last'.end = "exception"]_vars
    /\ [][(pc = "loop" /\ idx > Len(to_crawl) /\ unvisited_links = <<>> /\ pc' # "killed")
            => pc' = "done"]_vars
    /\ (pc \in Entered ~> pc \notin Entered)

\* C13, witness: a crawl call of three rounds or more has returned and
\* queue.json holds the empty frontier.
C13_Witness ==
    /\ pc = "done"
    /\ last.end = "normal"
    /\ last.round >= 3
    /\ Cardinality(run_fetched) >= 3
    /\ queue_file = File(<<>>)

\* C14: an entry point called with a website that has no host ends with a
\* non-zero exit (crawl_website) or a ValueError (crawl_website_async) before a
\* WebCrawler exists: the step creates no directory, writes no state file or
\* artifact and fetches nothing, and no crawler ever holds such a website as
\* its seed.
C14_NoHostRejectedBeforeConstruction ==
    /\ [](seed_url \notin NoHost)
    /\ [][pc' \in {"exited", "raised"}
            => /\ disk' = disk
               /\ fetch_count' = fetch_count
               /\ runs' = runs
               /\ visited' = {}]_vars

C14_Witness ==
    /\ pc \in {"exited", "raised"}
    /\ ~dirs
    /\ visited_file = Absent /\ queue_file = Absent /\ artifacts = <<>>
    /\ fetch_count = <<>>

\* The resolved link h is returned as l: l is h up to its fragment.
returned_as(h, l) ==
    /\ ~In("#", l)
    /\ Sub(h, 1, Len(l)) = l
    /\ Len(h) = Len(l) \/ Ch(h, Len(l) + 1) = "#"

\* C15 as stated: every URL returned by extract_links has a host that contains
\* the configured domain string, whatever the page content and the base URL.
C15_ReturnedHostContainsDomain ==
    (call.fn = "extract_links" /\ result.state = "returned")
        => \A l \in result.links : HostOnDomain(l)

\* C15, amended: every URL returned by extract_links has a netloc (user
\* information, host and port) that contains the configured domain string, and
\* a link whose resolved netloc does not contain it is not returned.
C15_ReturnedNetlocContainsDomain ==
    (call.fn = "extract_links" /\ result.state = "returned")
        => /\ \A l \in result.links : In(domain, urlparse(l).netloc)
           /\ \A h \in Range(hrefs(MarkdownLinks(call.markdown, 1)
                                      \o PlainLinks(call.markdown, 1), call.base_url)) :
                ~In(domain, urlparse(h).netloc)
                    => \A l \in result.links : ~returned_as(h, l)

C15_Witness ==
    /\ call = [fn |-> "extract_links", markdown |-> "[x](https://xd.c.o/q#f) https://o.x/p",
               base_url |-> "https://o.x/p"]
    /\ result = [state |-> "returned", links |-> {"https://xd.c.o/q"}]

\* The resolved links of a page that pass the domain test of extract_links.
resolved_links(markdown, base_url) ==
    {h \in Range(hrefs(MarkdownLinks(markdown, 1) \o PlainLinks(markdown, 1), base_url)) :
        OnDomain(h)}

\* C16: no URL returned by extract_links carries a fragment: every resolved
\* link U#frag is returned as U and nothing else is returned, so links that
\* differ only in their fragment are one entry of the result.
C16_NoFragmentReturned ==
    (call.fn = "extract_links" /\ result.state = "returned")
        => /\ \A l \in result.links : urlparse(l).fragment = "" /\ ~In("#", l)
           /\ \A h \in resolved_links(call.markdown, call.base_url) :
                \E l \in result.links : returned_as(h, l)
           /\ \A l \in result.links :
                \E h \in resolved_links(call.markdown, call.base_url) : returned_as(h, l)

C16_Witness ==
    /\ call = [fn |-> "extract_links", markdown |-> "[t](/a#t) https://d.c/a#s",
               base_url |-> "https://d.c/a/b"]
    /\ result = [state |-> "returned", links |-> {"https://d.c/a"}]

\* C18: loading the frontier or the visited set from a file that does not
\* exist returns the empty default, and a load right after a save returns
\* exactly the collection saved, whatever the file held before.
C18_PersistenceRoundTrip ==
    /\ (call.fn = "load_queue" /\ result # NoResult /\ ~json_file.exists)
            => result = [state |-> "returned", data |-> <<>>]
    /\ (call.fn = "load_visited" /\ result # NoResult /\ ~json_file.exists)
            => result = [state |-> "returned", data |-> {}]
    /\ (call.fn = "save_queue" /\ result.state \notin {"none", "saved"})
            => result = [state |-> "returned", data |-> call.data]
    /\ (call.fn = "save_visited" /\ result.state \notin {"none", "saved"})
            => result = [state |-> "returned", data |-> Range(call.data)]

C18_Witness ==
    /\ call.fn = "save_queue"
    /\ call.file.exists
    /\ call.data = <<"a\", \"b", "a\fb">>
    /\ result = [state |-> "returned", data |-> call.data]

\* The URL the loop is at shares its artifact path with another URL that was
\* fetched and whose artifact is written.
Collides ==
    /\ AtUrl
    /\ url \notin visited
    /\ ~Excluded(url)
    /\ \E u \in DOMAIN fetch_count :
            u # url /\ url2path(u) = url2path(url) /\ artifact_exists(u)

\* C17 as stated: when two distinct URLs map to the same artifact path and
\* both are processed, the later one is fetched too (and its content
\* overwrites the artifact of the earlier one).
C17_LaterIsFetchedToo ==
    [][(Collides /\ pc' # "killed") => pc' = "arun"]_vars

\* C17, amended: when two distinct URLs map to the same artifact path and the
\* artifact of the earlier one is written, the later one is skipped: it is not
\* fetched and not marked visited, and the artifact keeps the content of the
\* earlier one.  No step overwrites an artifact that exists.
C17_LaterIsSkipped ==
    /\ [][Collides => /\ pc' \in {"loop", "killed"}
                      /\ fetch_count' = fetch_count
                      /\ pc' = "loop" => visited' = visited
                      /\ visited_file' = visited_file
                      /\ artifacts' = artifacts]_vars
    /\ [][\A f \in DOMAIN artifacts :
            f \in DOMAIN artifacts' /\ artifacts'[f] = artifacts[f]]_vars

\* C17, witness: https://d.c/ was fetched and wrote d.c.md; a later crawl has
\* passed https://d.c, which maps to the same file, without fetching it, and
\* the file still holds the page of https://d.c/.
C17_Witness ==
    /\ pc = "loop"
    /\ idx = 2
    /\ to_crawl = <<"https://d.c">>
    /\ "https://d.c/" \in DOMAIN fetch_count
    /\ "https://d.c" \notin DOMAIN fetch_count \cup visited
    /\ url2path("https://d.c") = url2path("https://d.c/")
    /\ artifacts[url2path("https://d.c")] = Markdown("https://d.c/")
    /\ Markdown("https://d.c/") # Markdown("https://d.c")

\* The links extract_links gives for the pages fetched successfully in the
\* round that ends, without the visited and the excluded ones.
EligibleLinks ==
    {l \in UNION {extract_page(u).links : u \in last.ok} :
        l \notin visited /\ ~Excluded(l)}

\* The round ends and the process lives on.
RoundEnds == pc = "loop" /\ idx > Len(to_crawl) /\ pc' \in {"loop", "done"}

\* C20 as stated: the frontier saved at the end of a round holds exactly the
\* links extracted from the pages fetched successfully in the round that are
\* neither visited nor excluded, each once.
C20_SavedFrontierIsEligibleLinks ==
    [][RoundEnds => /\ queue_file' = File(to_crawl')
                    /\ NoDuplicates(to_crawl')
                    /\ Range(to_crawl') = EligibleLinks]_vars

\* The same for the rounds in which no page was counted above the ceiling.
SavedFrontierIsEligibleLinksUnderCeiling ==
    [][(RoundEnds /\ crawled <= crawl_limit)
            => /\ queue_file' = File(to_crawl')
               /\ NoDuplicates(to_crawl')
               /\ Range(to_crawl') = EligibleLinks]_vars

\* C19: two WebCrawler instances with different output directories in one
\* process, interleaved at their awaits, do not interfere: the visited set,
\* the crawled counter and the locals of each instance, and its visited.json,
\* queue.json and artifacts, are those of the instance run alone, and the file
\* system holds nothing else.
C19_InstancesDoNotInterfere ==
    /\ \A i \in DOMAIN crawlers :
        /\ crawlers[i] = alone[i].c
        /\ \A p \in DOMAIN alone[i].files : p \in DOMAIN fs /\ fs[p] = alone[i].files[p]
    /\ DOMAIN fs = UNION {DOMAIN alone[i].files : i \in DOMAIN alone}

\* C19, witness: both instances are at the await of a fetch, each in its
\* second round or later, and both have written artifacts and state files.
C19_Witness ==
    /\ DOMAIN crawlers = 1..2
    /\ \A i \in 1..2 :
        /\ crawlers[i].pc = "fetching"
        /\ crawlers[i].crawled >= 1
        /\ visited_path(OutputDirs[i]) \in DOMAIN fs
        /\ queue_path(OutputDirs[i]) \in DOMAIN fs
        /\ \E u \in crawlers[i].visited : content_path(OutputDirs[i], u) \in DOMAIN fs
    /\ content_path(OutputDirs[1], "https://d.c/c") \in DOMAIN fs
    /\ crawlers[2].to_crawl[crawlers[2].idx] = "https://d.c/e"

\* C21: a URL whose fetch failed (result.success false, or arun raised) stays
\* in self.visited and in visited.json, the failure writes no artifact, and no
\* later round and no later crawl call on these files fetches it again: it
\* has been fetched once.
C21_FailedNeverRetried ==
    /\ [](\A u \in failed :
            /\ fetch_count[u] = 1
            /\ pc \in Running => u \in visited
            /\ visited_file.state # "corrupt" => u \in visited_file.data)
    /\ [][failures' # failures
            => /\ visited' = visited /\ url \in visited
               /\ visited_file' = visited_file /\ url \in visited_file.data
               /\ artifacts' = artifacts]_vars

\* C21, witness: the fetch of the seed failed and left no artifact; a later
\* crawl call started with the seed as its frontier and has returned without
\* fetching it.
C21_Witness ==
    /\ pc = "done" /\ last.end = "normal"
    /\ runs >= 2
    /\ last.start = <<last.seed>>
    /\ last.seed \in failed
    /\ run_fetched = {}
    /\ fetch_count[last.seed] = 1
    /\ url2path(last.seed) \notin DOMAIN artifacts
    /\ last.seed \in visited_file.data

\* C22: a step of a crawl call writes an artifact exactly when the fetch it
\* issued for the URL in this call returns with success: the file of that URL
\* then holds the markdown of the fetch (it is empty when the process is
\* killed inside the write), no other file changes, and a fetch that fails or
\* raises creates no file.
C22_ArtifactIffFetchSucceeded ==
    /\ [][artifacts' # artifacts
            => /\ pc = "fetching"
               /\ url \in run_fetched
               /\ failures' = failures
               /\ DOMAIN artifacts' = DOMAIN artifacts \cup {url2path(url)}
               /\ \A f \in DOMAIN artifacts \ {url2path(url)} : artifacts'[f] = artifacts[f]
               /\ pc' # "killed" => artifacts'[url2path(url)] = Markdown(url)]_vars
    /\ [][(pc = "fetching" /\ pc' = "loop" /\ failures' = failures)
            => /\ url2path(url) \in DOMAIN artifacts'
               /\ artifacts'[url2path(url)] = Markdown(url)
               /\ url2path(url) \notin DOMAIN artifacts]_vars
    /\ [][(pc = "fetching" /\ failures' # failures) => artifacts' = artifacts]_vars

\* C22, witness: in one crawl call the fetch of one URL failed and left no
\* file, and the fetch of another succeeded and its file holds the page.
C22_Witness ==
    /\ pc = "loop"
    /\ failed # {}
    /\ failed \subseteq run_fetched
    /\ \A u \in failed : \A v \in run_fetched : url2path(v) = url2path(u) => v = u
    /\ \A u \in failed : url2path(u) \notin DOMAIN artifacts
    /\ \E u \in run_fetched \ failed :
        /\ url2path(u) \in DOMAIN artifacts
        /\ artifacts[url2path(u)] = Markdown(u)
        /\ Markdown(u) # ""

\* C23: processing a URL of the frontier that is in self.visited, contains an
\* exclusion pattern, has its artifact or is off the domain issues no fetch and
\* leaves self.visited, self.crawled, visited.json, queue.json, the artifacts,
\* the frontier and the links collected so far as they are: the loop moves to
\* the next URL.
C23_SkipChangesNothing ==
    [][(/\ AtUrl
        /\ \/ url \in visited
           \/ \E k \in DOMAIN exclude_patterns : In(exclude_patterns[k], url)
           \/ ~url2path_raises(url) /\ url2path(url) \in DOMAIN artifacts
           \/ ~url2path_raises(url) /\ ~In(domain, urlparse(url).netloc)
        /\ pc' # "killed")
          => /\ pc' = "loop"
             /\ idx' = idx + 1
             /\ to_crawl' = to_crawl
             /\ next_batch' = next_batch
             /\ fetch_count' = fetch_count
             /\ run_fetched' = run_fetched
             /\ visited' = visited
             /\ crawled' = crawled
             /\ visited_file' = visited_file
             /\ queue_file' = queue_file
             /\ artifacts' = artifacts]_vars

\* C23, witness: a crawl call started with a frontier of two URLs whose first
\* was in the visited set; the round has processed both and only the second
\* was fetched.
C23_Witness ==
    /\ pc = "loop"
    /\ last.round = 1
    /\ to_crawl = last.start
    /\ Len(to_crawl) = 2
    /\ idx = 3
    /\ to_crawl[1] \in visited_file.data
    /\ run_fetched = {to_crawl[2]}
    /\ to_crawl[1] \in DOMAIN fetch_count
    /\ to_crawl[2] \notin visited_file.data \/ to_crawl[2] \in run_fetched
    /\ Range(next_batch) = PageLinks(to_crawl[2])
    /\ Len(next_batch) = Cardinality(PageLinks(to_crawl[2]))
    /\ next_batch # <<>>

\* C24 as stated: when a round is complete, every URL of its frontier is in
\* self.visited.
C24_FrontierIsVisited ==
    (pc = "loop" /\ idx > Len(to_crawl)) => Range(to_crawl) \subseteq visited

\* C24, amended: self.visited holds the URLs of the frontiers that passed the
\* skip tests.  Every URL of the frontier the loop has passed is in
\* self.visited unless it contains an exclusion pattern, is off the domain or
\* has its artifact; and no excluded or off-domain URL is in self.visited.
C24_FrontierIsVisitedOrSkipped ==
    /\ pc = "loop"
        => \A k \in 1..Len(to_crawl) :
            k < idx => \/ to_crawl[k] \in visited
                       \/ Excluded(to_crawl[k])
                       \/ ~OnDomain(to_crawl[k])
                       \/ artifact_exists(to_crawl[k])
    /\ \A u \in visited : OnDomain(u) /\ ~Excluded(u)

\* C24, witness: a round over a frontier of an excluded URL, a URL of another
\* host and a page of the site is complete: only the page is in self.visited.
C24_Witness ==
    /\ pc = "loop"
    /\ Len(to_crawl) = 3
    /\ idx = 4
    /\ Excluded(to_crawl[1])
    /\ ~OnDomain(to_crawl[2])
    /\ visited = {to_crawl[3]}
    /\ run_fetched = {to_crawl[3]}

\* C25: a crawl call starts with the frontier queue.json holds when the file
\* exists and holds a non-empty list, and with [seed_url] otherwise.  When it
\* starts from queue.json the seed is not enqueued: the seed is an entry of a
\* frontier of that call, or fetched by it, only if it was in queue.json or is
\* a link of a page the call fetched.
C25_FrontierAtStart ==
    /\ [][(pc \notin Running /\ pc' = "loop")
            => /\ to_crawl' = IF queue_file.state = "ok" /\ queue_file.data # <<>>
                              THEN queue_file.data
                              ELSE <<seed_url'>>
               /\ idx' = 1
               /\ next_batch' = <<>>]_vars
    /\ []((/\ pc \in Running \cup {"done"}
           /\ ~last.seeded
           /\ seed_url \in Range(to_crawl) \cup run_fetched)
            => \/ seed_url \in Range(last.start)
               \/ \E u \in run_fetched : seed_url \in PageLinks(u))

\* C25, witness: a crawl call that started from a non-empty queue.json without
\* its seed has returned after fetching pages; the seed, a page of the site
\* that is neither excluded nor visited, was never fetched.
C25_Witness ==
    /\ pc = "done" /\ last.end = "normal"
    /\ ~last.seeded
    /\ last.start # <<>>
    /\ seed_url \notin Range(last.start)
    /\ run_fetched # {}
    /\ seed_url \in DOMAIN Web
    /\ ~Excluded(seed_url)
    /\ seed_url \notin DOMAIN fetch_count \cup visited

\* C26: queue.json is written at the end of a round only, after the last URL
\* of the frontier was processed, with the frontier of the next round; so
\* while a round is in progress, but for a first round that started from
\* [seed_url], queue.json holds exactly the frontier being processed.
C26_QueueSavedAtRoundEnd ==
    /\ [][queue_file' # queue_file => pc = "loop" /\ idx > Len(to_crawl)]_vars
    /\ [][(pc = "loop" /\ idx > Len(to_crawl) /\ pc' \in {"loop", "done"})
            => queue_file' = File(to_crawl')]_vars
    /\ []((pc \in Running /\ ~(last.seeded /\ last.round = 1))
            => queue_file = File(to_crawl))

\* C26, witness: in the second round of a crawl call, with the fetch of the
\* second URL of the frontier in flight and links collected from the first,
\* queue.json holds the frontier of the round.
C26_Witness ==
    /\ pc = "fetching"
    /\ last.round = 2
    /\ idx = 2
    /\ Len(to_crawl) = 2
    /\ next_batch # <<>>
    /\ queue_file = File(to_crawl)

\* C27: the crawl is breadth first by rounds and fetches one URL at a time.  A
\* fetch is issued only for the entry of the frontier the loop is at; the
\* entries are taken in order; the frontier does not change before all its
\* entries were processed, and the next one holds only links collected in the
\* round: a link found in a round that is not an entry of its frontier is
\* not fetched before the round is complete.  A fetch is issued only when none
\* is in flight, and the loop waits for its result.
C27_BreadthFirstOneAtATime ==
    /\ [][fetch_count' # fetch_count
            => /\ pc = "arun" /\ pc' = "fetching"
               /\ idx <= Len(to_crawl)
               /\ fetch_count' = Counted(to_crawl[idx])
               /\ to_crawl' = to_crawl /\ idx' = idx]_vars
    /\ [][(pc \in Running /\ pc' \in Running)
            => IF pc = "loop" /\ idx > Len(to_crawl)
               THEN idx' = 1 /\ Range(to_crawl') \subseteq Range(next_batch)
               ELSE to_crawl' = to_crawl /\ idx' \in {idx, idx + 1}]_vars
    /\ [][pc = "fetching"
            => fetch_count' = fetch_count /\ pc' \in {"loop", "killed"}]_vars
    /\ [](pc \in {"arun", "fetching"}
            => \A l \in Range(next_batch) \ Range(to_crawl) : l # url)

\* C27, witness: in the second round the fetch of the second entry of the
\* frontier is in flight while a link found on the first entry, which is not
\* in the frontier, waits unfetched and unvisited for the next round.
C27_Witness ==
    /\ pc = "fetching"
    /\ last.round = 2
    /\ idx = 2
    /\ Len(to_crawl) = 2
    /\ \E l \in Range(next_batch) \ Range(to_crawl) :
        /\ l \in PageLinks(to_crawl[1])
        /\ l \notin DOMAIN fetch_count \cup visited
        /\ l \in DOMAIN Web

\* C28: once self.crawled is above crawl_limit it stays above while the call
\* runs, and every crawl_and_scrape that returns with self.crawled above the
\* ceiling, the one that crossed it included, adds nothing to the links of the
\* round; yet above the ceiling a URL that is not skipped is still marked
\* visited and saved, fetched, and its artifact written.
C28_NoLinksAboveCeiling ==
    /\ [][(pc \in Running /\ pc' \in Running /\ crawled > crawl_limit)
            => crawled' > crawl_limit']_vars
    /\ [][(pc = "fetching" /\ pc' = "loop" /\ crawled' > crawl_limit)
            => next_batch' = next_batch /\ idx' = idx + 1]_vars
    /\ [][(AtUrl /\ crawled > crawl_limit /\ pc' # "killed"
           /\ url \notin visited /\ ~Excluded(url) /\ OnDomain(url)
           /\ url2path(url) \notin DOMAIN artifacts)
            => /\ pc' = "arun"
               /\ visited' = visited \cup {url}
               /\ visited_file' = File(visited')]_vars
    /\ [][(pc = "arun" /\ crawled > crawl_limit /\ pc' # "killed")
            => pc' = "fetching" /\ fetch_count' = Counted(url)]_vars
    /\ [][(pc = "fetching" /\ crawled > crawl_limit /\ pc' = "loop"
           /\ failures' = failures)
            => artifacts' = write_to_file(url, Markdown(url))]_vars

\* C28, witness: under a ceiling of one page the second round has fetched two
\* pages that link to pages not yet visited; both are counted, visited and
\* written, and the round has collected no link.
C28_Witness ==
    /\ pc = "loop"
    /\ crawl_limit = SmallLimit
    /\ crawled >= crawl_limit + 2
    /\ Cardinality(last.ok) = 2
    /\ next_batch = <<>>
    /\ \A u \in last.ok :
        /\ u \in visited_file.data
        /\ artifacts[url2path(u)] = Markdown(u)
        /\ PageLinks(u) \ visited # {}

\* C29: self.crawled is the number of URLs this instance fetched with
\* success, wrote the artifact of and extracted the links of (counted): a
\* return from a fetch adds one exactly when the fetch succeeded and the
\* extraction did not raise.  A skipped URL and a failed fetch leave it
\* unchanged, it never decreases while the instance lives, and a new instance
\* starts from 0 whatever visited.json holds.
C29_CrawledCountsSuccesses ==
    /\ [](/\ crawled = Cardinality(counted)
          /\ \A u \in counted :
                /\ u \in DOMAIN fetch_count
                /\ u \notin failed
                /\ url2path(u) \in DOMAIN artifacts
                /\ artifacts[url2path(u)] = Markdown(u))
    /\ [][(pc = "fetching" /\ pc' = "loop")
            => IF failures' = failures /\ ~extract_page(url).raised
               THEN /\ crawled' = crawled + 1
                    /\ counted' = counted \cup {url}
                    /\ url \notin counted
               ELSE crawled' = crawled /\ counted' = counted]_vars
    /\ [][crawled' > crawled => pc = "fetching" /\ pc' = "loop"]_vars
    /\ [][pc' \notin {"ready", "killed", "exited", "raised"} => crawled' >= crawled]_vars
    /\ [][(\/ pc = "loop" /\ pc' = "loop" /\ idx' = idx + 1
           \/ failures' # failures)
            => crawled' = crawled]_vars
    /\ [][pc' = "ready" => crawled' = 0]_vars

\* C29, witness: a new instance runs on an output directory whose visited.json
\* holds three URLs or more; it has fetched two URLs, one with success and one
\* that failed, and its counter is 1.
C29_Witness ==
    /\ pc = "loop"
    /\ runs >= 2
    /\ crawled = 1
    /\ Cardinality(visited_file.data) >= 3
    /\ Cardinality(run_fetched) = 2
    /\ Cardinality(counted) = 1
    /\ counted \subseteq run_fetched
    /\ run_fetched \ counted \subseteq failed

\* C30: a step that writes an artifact writes the file of the URL the loop is
\* at, and that URL is then in self.visited and in visited.json; so, in every
\* state in which visited.json parses, every artifact is the file of a URL
\* that visited.json holds.
C30_ArtifactsAreOfVisited ==
    /\ [][artifacts' # artifacts
            => /\ url \in visited
               /\ visited_file.state = "ok"
               /\ url \in visited_file.data
               /\ visited_file' = visited_file
               /\ DOMAIN artifacts' \ DOMAIN artifacts = {url2path(url)}]_vars
    /\ [](visited_file.state # "corrupt"
            => DOMAIN artifacts \subseteq {url2path(u) : u \in visited_file.data})

\* C30, witness: after a kill and a restart three artifacts or more exist,
\* some written by the process that was killed and one by the running call, and
\* the URL of each is in visited.json.
C30_Witness ==
    /\ pc = "loop"
    /\ kills = 1
    /\ visited_file.state = "ok"
    /\ Cardinality(DOMAIN artifacts) >= 3
    /\ \E u \in run_fetched : url2path(u) \in DOMAIN artifacts
    /\ \E u \in visited_file.data \ run_fetched : url2path(u) \in DOMAIN artifacts
    /\ \A f \in DOMAIN artifacts : \E u \in visited_file.data : url2path(u) = f

=============================================================================
